---- MODULE Spec2Model ----
(***************************************************************************)
(* The notebooks of the course as state machines: one specification per    *)
(* notebook.  A notebook is a linear script; its state is the kernel's     *)
(* name space and a program counter naming the next statement to run.      *)
(* Library calls (scikit-learn, pandas) are operators following the        *)
(* library's documented behaviour; the cells are the actions.              *)
(*                                                                         *)
(*   SpecFS      notebooks/feature_selection.ipynb, "Caveats" section      *)
(*   SpecSearch  notebooks/04_parameter_tuning_search.ipynb                *)
(*   SpecEnc     the two notebooks on the encoding of categorical columns  *)
(*               (unnamed/part_000, unnamed/part_003)                      *)
(*   SpecNames   the names every notebook reads and binds, statement by    *)
(*               statement                                                 *)
(*   SpecFiles   the files the notebooks read, the runs interleaved        *)
(*   SpecDeploy  .github/workflows/deploy-gh-pages.yml                     *)
(*   SpecShorten shorten_param of 04_parameter_tuning_search.ipynb         *)
(***************************************************************************)
EXTENDS Integers, Sequences, FiniteSets, TLC

VARIABLES
    \* notebooks/feature_selection.ipynb
    fs_pc,              \* next statement of the notebook
    X,                  \* X[i][j]: value of feature j of sample i
    y,                  \* y[i]: class of sample i (0 or 1)
    feature_selector,   \* the SelectKBest object the name is bound to
    cv_base,            \* per fold: what the cross-validation on all the features did
    cv_wrong,           \* per fold: what the cross-validation of the wrong pattern did
    cv_pipe,            \* per fold: what the cross-validation of the pipeline did
    \* notebooks/04_parameter_tuning_search.ipynb
    s_pc,               \* next statement of the notebook
    df,                 \* the content of the CSV file, as the seed it stands for
    split,              \* df_train, df_test: the rows of the two sides of the split
    model,              \* the base pipeline
    model_grid_search,  \* the GridSearchCV object
    model_random_search,\* the RandomizedSearchCV object
    calls,              \* the fit / score / predict calls made so far, in order
    \* unnamed/part_000 (exercise on OrdinalEncoder, with its solution) and
    \* unnamed/part_003 (ColumnTransformer)
    e_nb,               \* the notebook that is run
    e_pc,               \* next cell of the notebook
    e_data,             \* data[r][c]: value of categorical column c in row r
    e_columns,          \* the lists of column names the notebook computes
    e_split,            \* data_train, data_test: the rows of the two sides
    categories,         \* the precomputed lists of categories
    e_model,            \* the pipeline the name model is bound to
    e_exc,              \* the exception that stopped the notebook, if any
    e_calls,            \* the library calls made so far, in order
    \* the kernel of a notebook, as far as names go
    n_nb,               \* the notebook that is run
    n_pc,               \* number of statements run so far
    n_ns,               \* the names bound in the kernel's name space
    n_defs,             \* <<f, x>>: the body of the function or class f reads the global x
    n_exc,              \* the NameError that stopped the notebook, if any
    \* the files of the repository and the runs of the notebooks
    f_files,            \* f_files[path]: the content of the file
    f_pc,               \* f_pc[nb]: number of file operations the run of nb has made
    f_runs,             \* f_runs[nb]: number of runs of nb started so far
    f_log,              \* the file operations made so far
    \* .github/workflows/deploy-gh-pages.yml
    w_pushes,           \* number of pushes so far
    w_runs,             \* the workflow runs, in the order they were triggered
    w_pages,            \* what GitHub Pages serves
    \* shorten_param
    sp_pc,              \* next statement of the cell
    sp_param_grid,      \* the keys of param_grid
    column_results,     \* the list column_results
    cv_columns          \* the column names of cv_results

fsVars == <<fs_pc, X, y, feature_selector, cv_base, cv_wrong, cv_pipe>>
searchVars == <<s_pc, df, split, model, model_grid_search, model_random_search, calls>>
encVars == <<e_nb, e_pc, e_data, e_columns, e_split, categories, e_model, e_exc, e_calls>>
nameVars == <<n_nb, n_pc, n_ns, n_defs, n_exc>>
fileVars == <<f_files, f_pc, f_runs, f_log>>
deployVars == <<w_pushes, w_runs, w_pages>>
shortenVars == <<sp_pc, sp_param_grid, column_results, cv_columns>>
laterVars == <<nameVars, fileVars, deployVars, shortenVars>>
vars == <<fsVars, searchVars, encVars, laterVars>>

None == "None"

\* a name of the notebook that no statement has bound yet
Unbound == [kind |-> "None", fitted |-> FALSE, n_jobs |-> {}]
NoSplit == [train |-> {}, test |-> {}]
\* no estimator: what answers for an object that is not fitted
NoEstimator == [params |-> <<>>, fit_rows |-> {}]
\* no pipeline, no exception
NoModel == [name |-> "None", encoders |-> <<>>, fitted |-> FALSE]
NoExc == [cell |-> "", type |-> ""]
NoColumns == [categorical |-> <<>>, binary |-> <<>>, one_hot |-> <<>>]

\* no NameError
NoNameError == [line |-> 0, names |-> {}]
\* GitHub Pages before any publication
NoPages == [run |-> 0, commit |-> 0, html |-> 0]

NamesIdle ==
    /\ n_nb = "idle"
    /\ n_pc = 0
    /\ n_ns = {}
    /\ n_defs = {}
    /\ n_exc = NoNameError

FilesIdle ==
    /\ f_files = <<>>
    /\ f_pc = <<>>
    /\ f_runs = <<>>
    /\ f_log = {}

DeployIdle ==
    /\ w_pushes = 0
    /\ w_runs = <<>>
    /\ w_pages = NoPages

ShortenIdle ==
    /\ sp_pc = "idle"
    /\ sp_param_grid = <<>>
    /\ column_results = <<>>
    /\ cv_columns = <<>>

EncIdle ==
    /\ e_nb = "idle"
    /\ e_pc = "idle"
    /\ e_data = <<>>
    /\ e_columns = NoColumns
    /\ e_split = NoSplit
    /\ categories = <<>>
    /\ e_model = NoModel
    /\ e_exc = NoExc
    /\ e_calls = <<>>

(***************************************************************************)
(* Bounds of the model.  The notebook draws 100 samples of 100000 features *)
(* and keeps k = 10 of them under a 5-fold cross-validation; the model     *)
(* keeps the same shape at a size TLC enumerates.                          *)
(***************************************************************************)
n_samples == 6
n_features == 2
k == 1
n_splits == 3
MaxValue == 1
MaxSeed == 29

Samples == 1..n_samples
Features == 1..n_features
Folds == 0..(n_splits - 1)
Values == 0..MaxValue
Seeds == 0..MaxSeed

(***************************************************************************)
(* rng = np.random.RandomState(seed): a linear congruential generator      *)
(* stands for the library's generator; Draw(seed, n, m) is the n-th draw,  *)
(* reduced to 0..m-1.                                                      *)
(***************************************************************************)
Lcg(h) == (h * 75 + 74) % 65537

RECURSIVE LcgIter(_, _)
LcgIter(h, n) == IF n = 0 THEN h ELSE LcgIter(Lcg(h), n - 1)

Draw(seed, n, m) == (LcgIter(seed + 1, n) \div 8) % m

\* rng.randn(n_samples, n_features)
randn(seed) ==
    [i \in Samples |-> [j \in Features |->
        Draw(seed, (i - 1) * n_features + j, MaxValue + 1)]]

\* rng.randint(0, 2, size=n_samples)
randint(seed) ==
    [i \in Samples |-> Draw(seed, n_samples * n_features + i, 2)]

(***************************************************************************)
(* Sums over finite sets of samples.                                       *)
(***************************************************************************)
RECURSIVE SumOver(_, _)
SumOver(S, f) ==
    IF S = {} THEN 0
    ELSE LET i == CHOOSE i \in S : TRUE
         IN  f[i] + SumOver(S \ {i}, f)

(***************************************************************************)
(* StratifiedKFold(n_splits), no shuffle: the splitter cross_val_score     *)
(* uses for a classifier.  The sorted labels are dealt to the folds in     *)
(* turn to fix how many samples of each class a fold tests; the samples of *)
(* a class then fill the folds in index order.                             *)
(***************************************************************************)
ClassCount(yy, c) == Cardinality({i \in Samples : yy[i] = c})

\* class of position p (0-based) of the sorted labels
SortedClass(yy, p) == IF p < ClassCount(yy, 0) THEN 0 ELSE 1

\* number of samples of class c that fold f tests
Allocation(yy, f, c) ==
    Cardinality({p \in 0..(n_samples - 1) :
                    p % n_splits = f /\ SortedClass(yy, p) = c})

\* rank (0-based) of sample i among the samples of its class
RankInClass(yy, i) == Cardinality({i2 \in Samples : i2 < i /\ yy[i2] = yy[i]})

RECURSIVE AllocatedBefore(_, _, _)
AllocatedBefore(yy, f, c) ==
    IF f = 0 THEN 0
    ELSE AllocatedBefore(yy, f - 1, c) + Allocation(yy, f - 1, c)

test_folds(yy) ==
    [i \in Samples |->
        CHOOSE f \in Folds :
            /\ AllocatedBefore(yy, f, yy[i]) <= RankInClass(yy, i)
            /\ RankInClass(yy, i) < AllocatedBefore(yy, f, yy[i]) + Allocation(yy, f, yy[i])]

Test(yy, f) == {i \in Samples : test_folds(yy)[i] = f}
Train(yy, f) == Samples \ Test(yy, f)

(***************************************************************************)
(* f_classif: the ANOVA F-value of feature j against the classes, on the   *)
(* samples of rows.  With n0, n1 the class sizes, S0, S1 the class sums    *)
(* and Q the sum of squares, F = (B / W) * (n - 2) / n where               *)
(*   B = (n1*S0 - n0*S1)^2        (between-class sum of squares * n0*n1*n) *)
(*   W = n0*n1*Q - n1*S0^2 - n0*S1^2   (within-class sum of squares *n0*n1)*)
(* The score is kept as the pair (B, W) and a kind: "nan" (0/0, or no      *)
(* degree of freedom left), "inf" (B > 0, W = 0) or "finite".              *)
(***************************************************************************)
f_classif(XX, yy, rows, j) ==
    LET R0 == {i \in rows : yy[i] = 0}
        R1 == {i \in rows : yy[i] = 1}
        n0 == Cardinality(R0)
        n1 == Cardinality(R1)
        col == [i \in Samples |-> XX[i][j]]
        sq == [i \in Samples |-> XX[i][j] * XX[i][j]]
        S0 == SumOver(R0, col)
        S1 == SumOver(R1, col)
        Q == SumOver(rows, sq)
        B == (n1 * S0 - n0 * S1) * (n1 * S0 - n0 * S1)
        W == n0 * n1 * Q - n1 * S0 * S0 - n0 * S1 * S1
    IN  IF n0 = 0 \/ n1 = 0 \/ n0 + n1 <= 2 THEN [kind |-> "nan", B |-> 0, W |-> 1]
        ELSE IF W = 0 /\ B = 0 THEN [kind |-> "nan", B |-> 0, W |-> 1]
        ELSE IF W = 0 THEN [kind |-> "inf", B |-> 1, W |-> 0]
        ELSE [kind |-> "finite", B |-> B, W |-> W]

\* _clean_nans, then the order of the scores: nan is the smallest score
KindRank(s) == CASE s.kind = "nan" -> 0 [] s.kind = "finite" -> 1 [] s.kind = "inf" -> 2

ScoreLess(a, b) ==
    \/ KindRank(a) < KindRank(b)
    \/ a.kind = "finite" /\ b.kind = "finite" /\ a.B * b.W < b.B * a.W

(***************************************************************************)
(* SelectKBest(score_func=f_classif, k).fit(X[rows], y[rows]): the support *)
(* is the last k features of the stable ascending sort of the scores, so   *)
(* of two equal scores the feature of higher index is kept.                *)
(***************************************************************************)
Beats(XX, yy, rows, a, b) ==
    LET sa == f_classif(XX, yy, rows, a)
        sb == f_classif(XX, yy, rows, b)
    IN  ScoreLess(sb, sa) \/ (~ScoreLess(sa, sb) /\ a > b)

SelectKBest(XX, yy, rows) ==
    {j \in Features :
        Cardinality({j2 \in Features \ {j} : Beats(XX, yy, rows, j2, j)}) < k}

\* the selector as constructed: SelectKBest(score_func=f_classif, k=k)
NewSelector == [fitted |-> FALSE, fit_rows |-> {}, support |-> {}]

\* selector.fit(X[rows], y[rows])
FitSelector(XX, yy, rows) ==
    [fitted |-> TRUE, fit_rows |-> rows, support |-> SelectKBest(XX, yy, rows)]

\* sklearn.base.clone: a new estimator with the same parameters, not fitted
clone(est) == NewSelector

(***************************************************************************)
(* cross_val_score of the two patterns.  For each fold the record keeps    *)
(* the samples the feature selection in use was computed from (sel_rows),  *)
(* the features the classifier sees (support), and the samples the         *)
(* classifier is fitted and scored on.                                     *)
(***************************************************************************)

\* the folds cross_val_score iterates over: cv.split(X, y)
cv_split(yy) == [f \in Folds |-> [train |-> Train(yy, f), test |-> Test(yy, f)]]

\* cross_val_score(LogisticRegression(), X, y): no selection, every feature is used
AllFeaturesFold(train, test) ==
    [sel_rows |-> {}, support |-> Features, clf_fit |-> train, scored |-> test]

\* cross_val_score(model, feature_selector.fit_transform(X, y), y):
\* the columns were chosen by the selector fitted before the call
WrongPatternFold(sel, train, test) ==
    [sel_rows |-> sel.fit_rows, support |-> sel.support,
     clf_fit |-> train, scored |-> test]

\* a cross-validation that hands the whole dataset to fit
PipelineFitRows_AllRows(train, test) == train \cup test

\* the samples the estimator of a fold is fitted on: estimator.fit(X[train], y[train])
PipelineFitRows(train, test) == train

\* cross_val_score(make_pipeline(feature_selector, LogisticRegression()), X, y):
\* each fold clones the pipeline and fits the clone on the fold's training samples
PipelineFold(sel, XX, yy, train, test) ==
    LET fresh == clone(sel)
        fit == FitSelector(XX, yy, PipelineFitRows(train, test))
    IN  [sel_rows |-> fit.fit_rows, support |-> fit.support,
         clf_fit |-> PipelineFitRows(train, test), scored |-> test]

(***************************************************************************)
(* notebooks/feature_selection.ipynb, section "Selecting features without  *)
(* cross-validation".                                                      *)
(***************************************************************************)
SearchIdle ==
    /\ s_pc = "idle"
    /\ df = None
    /\ split = NoSplit
    /\ model = Unbound
    /\ model_grid_search = Unbound
    /\ model_random_search = Unbound
    /\ calls = <<>>

\* a selection made on the training samples of the first fold only
FitTransformRows_FirstTrain == cv_split(y)[0].train

\* the samples of feature_selector.fit_transform(X, y): all of them
FitTransformRows == Samples

FSInit ==
    /\ SearchIdle
    /\ EncIdle
    /\ NamesIdle /\ FilesIdle /\ DeployIdle /\ ShortenIdle
    /\ fs_pc = "generate"
    /\ X = None
    /\ y = None
    /\ feature_selector = None
    /\ cv_base = None
    /\ cv_wrong = None
    /\ cv_pipe = None

\* rng = np.random.RandomState(42); X, y = rng.randn(...), rng.randint(...)
GenerateData ==
    /\ fs_pc = "generate"
    /\ \E seed \in Seeds :
        /\ X' = randn(seed)
        /\ y' = randint(seed)
    /\ fs_pc' = "baseline"
    /\ UNCHANGED <<feature_selector, cv_base, cv_wrong, cv_pipe, searchVars, encVars, laterVars>>

\* model = LogisticRegression()
\* test_score = cross_val_score(model, X, y, n_jobs=-1)
BaselineCV ==
    /\ fs_pc = "baseline"
    /\ cv_base' = [f \in Folds |-> AllFeaturesFold(cv_split(y)[f].train, cv_split(y)[f].test)]
    /\ fs_pc' = "construct"
    /\ UNCHANGED <<X, y, feature_selector, cv_wrong, cv_pipe, searchVars, encVars, laterVars>>

\* feature_selector = SelectKBest(score_func=f_classif, k=10)
ConstructSelector ==
    /\ fs_pc = "construct"
    /\ feature_selector' = NewSelector
    /\ fs_pc' = "wrong_pattern"
    /\ UNCHANGED <<X, y, cv_base, cv_wrong, cv_pipe, searchVars, encVars, laterVars>>

\* test_score = cross_val_score(model, feature_selector.fit_transform(X, y), y)
WrongPattern ==
    /\ fs_pc = "wrong_pattern"
    /\ LET fitted == FitSelector(X, y, FitTransformRows)
       IN  /\ feature_selector' = fitted
           /\ cv_wrong' = [f \in Folds |->
                WrongPatternFold(fitted, cv_split(y)[f].train, cv_split(y)[f].test)]
    /\ fs_pc' = "pipeline"
    /\ UNCHANGED <<X, y, cv_base, cv_pipe, searchVars, encVars, laterVars>>

\* model = make_pipeline(feature_selector, LogisticRegression())
\* test_score = cross_val_score(model, X, y)
PipelineCV ==
    /\ fs_pc = "pipeline"
    /\ cv_pipe' = [f \in Folds |->
        PipelineFold(feature_selector, X, y, cv_split(y)[f].train, cv_split(y)[f].test)]
    /\ fs_pc' = "done"
    /\ UNCHANGED <<X, y, feature_selector, cv_base, cv_wrong, searchVars, encVars, laterVars>>

FSNext == GenerateData \/ BaselineCV \/ ConstructSelector \/ WrongPattern \/ PipelineCV

SpecFS == FSInit /\ [][FSNext]_vars

(***************************************************************************)
(* Claims on the feature selection notebook.                               *)
(***************************************************************************)

\* the datasets that agree with (X, y) outside the samples of held
HeldOutVariants(held) ==
    {[XX |-> [i \in Samples |-> IF i \in held THEN alt[i] ELSE X[i]],
      yy |-> [i \in Samples |-> IF i \in held THEN lab[i] ELSE y[i]]] :
        alt \in [held -> [Features -> Values]], lab \in [held -> {0, 1}]}

C2_WrongPatternLeaks ==
    fs_pc \in {"pipeline", "done"} =>
        \A f \in Folds :
            /\ cv_wrong[f].sel_rows = Samples
            /\ cv_wrong[f].scored # {}
            /\ cv_wrong[f].scored \subseteq cv_wrong[f].sel_rows
            /\ cv_wrong[f].support = SelectKBest(X, y, Samples)
            /\ \A g \in Folds : cv_wrong[g].support = cv_wrong[f].support

\* C2 witness: the leak is effective: other values of the held-out samples of
\* a fold would have changed the features the fold was evaluated with
C2_Witness ==
    /\ fs_pc \in {"pipeline", "done"}
    /\ \E f \in Folds : \E v \in HeldOutVariants(cv_wrong[f].scored) :
           SelectKBest(v.XX, v.yy, Samples) # cv_wrong[f].support

(***************************************************************************)
(* notebooks/04_parameter_tuning_search.ipynb                              *)
(*                                                                         *)
(* The CSV file's content is not part of the repository: df stands for it  *)
(* as a seed that fixes what the model needs of it, the rows each side of  *)
(* the split receives (random_state=42 is fixed, the rows are not) and the *)
(* score every fitted candidate obtains.                                   *)
(***************************************************************************)
n_rows == 7
MaxGridValues == 2
MaxScore == 2
MaxParams == 2
MaxWidth == 2
MaxSampleSeed == 2

\* GridSearchCV(model, param_grid=param_grid, n_jobs=4, cv=2)
grid_n_jobs == 4
grid_cv == 2
\* RandomizedSearchCV(model, param_distributions=..., n_iter=10, n_jobs=4, cv=5)
n_iter == 10
random_n_jobs == 4
random_cv == 5
\* df_test.iloc[0:5]
head_rows == 5

Rows == 1..n_rows

\* the values listed in the notebook, learning rates in hundredths
learning_rate_values == <<5, 10, 50, 100, 500>>
max_leaf_nodes_values == <<3, 10, 30, 100>>

\* the parameter names, in sorted order
GridKeys == <<"classifier__learning_rate", "classifier__max_leaf_nodes">>

\* param_grid of the notebook
param_grid ==
    [p \in {GridKeys[1], GridKeys[2]} |->
        IF p = GridKeys[1] THEN learning_rate_values ELSE max_leaf_nodes_values]

\* the grids the search is run on: the notebook's, and the grids of its first values
Grids ==
    {param_grid} \cup
    {[p \in {GridKeys[1], GridKeys[2]} |->
        IF p = GridKeys[1] THEN SubSeq(learning_rate_values, 1, a)
        ELSE SubSeq(max_leaf_nodes_values, 1, b)] :
            a \in 1..MaxGridValues, b \in 1..MaxGridValues}

(***************************************************************************)
(* train_test_split(data, target, random_state=42): test_size defaults to  *)
(* a quarter of the rows, rounded up; a shuffle decides which.             *)
(***************************************************************************)
n_test == (n_rows + 3) \div 4

ShuffleKey(seed, r) == LcgIter(seed + 1, r) * (n_rows + 1) + r

train_test_split(seed) ==
    LET test == {r \in Rows :
                    Cardinality({r2 \in Rows : ShuffleKey(seed, r2) > ShuffleKey(seed, r)})
                        < n_test}
    IN  [train |-> Rows \ test, test |-> test]

df_train == split.train
df_test == split.test

(***************************************************************************)
(* ParameterGrid(grid): the product of the value lists, the keys in sorted *)
(* order, the last key varying fastest.  A candidate is the tuple of its   *)
(* values, in the order of the keys.                                       *)
(***************************************************************************)
RECURSIVE Product(_, _)
Product(keys, grid) ==
    IF keys = <<>> THEN << <<>> >>
    ELSE LET rest == Product(Tail(keys), grid)
             vals == grid[Head(keys)]
         IN  [i \in 1..(Len(vals) * Len(rest)) |->
                <<vals[((i - 1) \div Len(rest)) + 1]>> \o rest[((i - 1) % Len(rest)) + 1]]

\* a grid that pairs the values of the parameters instead of crossing them
ParameterGrid_Zip(grid) ==
    LET n == IF Len(grid[GridKeys[1]]) < Len(grid[GridKeys[2]])
             THEN Len(grid[GridKeys[1]]) ELSE Len(grid[GridKeys[2]])
    IN  [i \in 1..n |-> <<grid[GridKeys[1]][i], grid[GridKeys[2]][i]>>]

ParameterGrid(grid) == Product(GridKeys, grid)

(***************************************************************************)
(* ParameterSampler(param_distributions, n_iter): every iteration draws    *)
(* one value per parameter from its distribution (rvs), so candidates may  *)
(* repeat.  A distribution is modelled by its width, the number of values  *)
(* it can give.                                                            *)
(***************************************************************************)
SampleCandidate(seed, i, n_params, width) ==
    [p \in 1..n_params |-> Draw(seed, (i - 1) * n_params + p, width) + 1]

RECURSIVE Dedup(_)
Dedup(seq) ==
    IF seq = <<>> THEN <<>>
    ELSE LET front == Dedup(SubSeq(seq, 1, Len(seq) - 1))
             last == seq[Len(seq)]
         IN  IF \E i \in 1..Len(front) : front[i] = last THEN front
             ELSE Append(front, last)

\* a sampler that drops the candidates it has drawn before
ParameterSampler_Distinct(seed, n_params, width) ==
    Dedup([i \in 1..n_iter |-> SampleCandidate(seed, i, n_params, width)])

ParameterSampler(seed, n_params, width) ==
    [i \in 1..n_iter |-> SampleCandidate(seed, i, n_params, width)]

(***************************************************************************)
(* The cross-validation inside a search: cv folds over the rows handed to  *)
(* fit, every candidate fitted and scored on every fold.                   *)
(***************************************************************************)
RowRank(rows, r) == Cardinality({r2 \in rows : r2 < r})

InnerTest(rows, cv, f) == {r \in rows : RowRank(rows, r) % cv = f}

RECURSIVE SumSeq(_)
SumSeq(seq) == IF seq = <<>> THEN 0 ELSE Head(seq) + 3 * SumSeq(Tail(seq))

\* the score the pipeline with the parameters cand obtains on fold f
TestScore(seed, cand, f) ==
    (Lcg(Lcg(Lcg(seed + 1) + SumSeq(cand)) + f) \div 8) % (MaxScore + 1)

\* one fit-and-score per candidate and fold, candidates in order
Evaluate(seed, candidates, rows, cv) ==
    [t \in 1..(Len(candidates) * cv) |->
        LET c == ((t - 1) \div cv) + 1
            f == (t - 1) % cv
        IN  [candidate |-> c, fold |-> f, params |-> candidates[c],
             fit_rows |-> rows \ InnerTest(rows, cv, f),
             score_rows |-> InnerTest(rows, cv, f),
             test_score |-> TestScore(seed, candidates[c], f)]]

\* cv_results_["mean_test_score"], kept as the sum over the cv folds
MeanTestScore(tasks, n_candidates) ==
    [c \in 1..n_candidates |->
        SumOver({t \in 1..Len(tasks) : tasks[t].candidate = c},
                [t \in 1..Len(tasks) |-> tasks[t].test_score])]

\* a search that keeps the first candidate
BestIndex_First(mean) == 1

\* best_index_: the first candidate of rank 1
BestIndex(mean) ==
    CHOOSE c \in 1..Len(mean) :
        /\ \A c2 \in 1..Len(mean) : mean[c2] <= mean[c]
        /\ \A c2 \in 1..(c - 1) : mean[c2] < mean[c]

\* the search object as constructed; n_jobs is the set of worker counts asked
\* for, empty when the argument is left out; budget is the number of fits the
\* arguments fix
NewSearch(kind, grid, jobs, cv, n_candidates) ==
    [kind |-> kind, param_grid |-> grid, n_jobs |-> jobs, cv |-> cv,
     fitted |-> FALSE, budget |-> n_candidates * cv,
     params |-> <<>>, tasks |-> <<>>, mean_test_score |-> <<>>,
     best_index_ |-> 0, best_params_ |-> <<>>, best_estimator_ |-> NoEstimator]

\* search.fit(rows): evaluate the candidates, then refit the best on all the rows
FitSearch(search, seed, candidates, rows) ==
    LET tasks == Evaluate(seed, candidates, rows, search.cv)
        mean == MeanTestScore(tasks, Len(candidates))
        best == BestIndex(mean)
    IN  [search EXCEPT !.fitted = TRUE, !.params = candidates, !.tasks = tasks,
                       !.mean_test_score = mean, !.best_index_ = best,
                       !.best_params_ = candidates[best],
                       !.best_estimator_ = [params |-> candidates[best], fit_rows |-> rows]]

\* a call of method on obj: what it was given, and the estimator that answers
Call(name, obj, method, rows) ==
    [obj |-> name, method |-> method, rows |-> rows, fitted |-> obj.fitted,
     answered_by |-> IF obj.fitted /\ method # "fit" THEN obj.best_estimator_
                     ELSE NoEstimator]

\* df_test.iloc[0:5]
HeadOf(rows) ==
    {r \in rows : RowRank(rows, r) < head_rows}

FSIdle ==
    /\ fs_pc = "idle"
    /\ X = None
    /\ y = None
    /\ feature_selector = None
    /\ cv_base = None
    /\ cv_wrong = None
    /\ cv_pipe = None

SearchInit ==
    /\ FSIdle
    /\ EncIdle
    /\ NamesIdle /\ FilesIdle /\ DeployIdle /\ ShortenIdle
    /\ s_pc = "read_csv"
    /\ df = None
    /\ split = NoSplit
    /\ model = Unbound
    /\ model_grid_search = Unbound
    /\ model_random_search = Unbound
    /\ calls = <<>>

\* df = pd.read_csv("../datasets/adult-census.csv"); target = ...; data = ...
ReadCsv ==
    /\ s_pc = "read_csv"
    /\ df' \in Seeds
    /\ s_pc' = "split"
    /\ UNCHANGED <<split, model, model_grid_search, model_random_search, calls, fsVars, encVars, laterVars>>

\* df_train, df_test, target_train, target_test = train_test_split(data, target, random_state=42)
TrainTestSplit ==
    /\ s_pc = "split"
    /\ split' = train_test_split(df)
    /\ s_pc' = "model_fit"
    /\ UNCHANGED <<df, model, model_grid_search, model_random_search, calls, fsVars, encVars, laterVars>>

\* the rows the base pipeline is fitted on
ModelFitArg == df_train

\* model = Pipeline([...]); model.fit(df_train, target_train)
ModelFit ==
    /\ s_pc = "model_fit"
    /\ LET new == [kind |-> "Pipeline", n_jobs |-> {}, fitted |-> FALSE,
                   best_estimator_ |-> NoEstimator]
       IN  /\ calls' = Append(calls, Call("model", new, "fit", ModelFitArg))
           /\ model' = [new EXCEPT !.fitted = TRUE,
                            !.best_estimator_ = [params |-> <<>>, fit_rows |-> ModelFitArg]]
    /\ s_pc' = "grid_construct"
    /\ UNCHANGED <<df, split, model_grid_search, model_random_search, fsVars, encVars, laterVars>>

\* a search constructed without n_jobs
GridNJobs_Default == {}

\* the n_jobs the grid search is constructed with
GridNJobs == {grid_n_jobs}

\* param_grid = {...}; model_grid_search = GridSearchCV(model, param_grid=param_grid, n_jobs=4, cv=2)
GridConstruct ==
    /\ s_pc = "grid_construct"
    /\ \E grid \in Grids :
         model_grid_search' =
            NewSearch("GridSearchCV", grid, GridNJobs, grid_cv, Len(ParameterGrid(grid)))
    /\ s_pc' = "grid_fit"
    /\ UNCHANGED <<df, split, model, model_random_search, calls, fsVars, encVars, laterVars>>

\* a search fitted on every row of the dataset
GridFitArg_AllRows == df_train \cup df_test

\* the rows the grid search is fitted on
GridFitArg == df_train

\* model_grid_search.fit(df_train, target_train)
GridFit ==
    /\ s_pc = "grid_fit"
    /\ calls' = Append(calls, Call("model_grid_search", model_grid_search, "fit", GridFitArg))
    /\ model_grid_search' =
         FitSearch(model_grid_search, df, ParameterGrid(model_grid_search.param_grid), GridFitArg)
    /\ s_pc' = "grid_score"
    /\ UNCHANGED <<df, split, model, model_random_search, fsVars, encVars, laterVars>>

\* model_grid_search.score(df_test, target_test)
GridScore ==
    /\ s_pc = "grid_score"
    /\ calls' = Append(calls, Call("model_grid_search", model_grid_search, "score", df_test))
    /\ s_pc' = "grid_predict"
    /\ UNCHANGED <<df, split, model, model_grid_search, model_random_search, fsVars, encVars, laterVars>>

\* model_grid_search.predict(df_test.iloc[0:5])
GridPredict ==
    /\ s_pc = "grid_predict"
    /\ calls' = Append(calls, Call("model_grid_search", model_grid_search, "predict", HeadOf(df_test)))
    /\ s_pc' = "random_construct"
    /\ UNCHANGED <<df, split, model, model_grid_search, model_random_search, fsVars, encVars, laterVars>>

\* param_distributions = {...}
\* model_random_search = RandomizedSearchCV(model, param_distributions=..., n_iter=10, n_jobs=4, cv=5)
RandomConstruct ==
    /\ s_pc = "random_construct"
    /\ \E n_params \in 1..MaxParams, width \in 1..MaxWidth :
         model_random_search' =
            NewSearch("RandomizedSearchCV", [n_params |-> n_params, width |-> width],
                      {random_n_jobs}, random_cv, n_iter)
    /\ s_pc' = "random_fit"
    /\ UNCHANGED <<df, split, model, model_grid_search, calls, fsVars, encVars, laterVars>>

\* the rows the randomized search is fitted on
RandomFitArg == df_train

\* model_random_search.fit(df_train, target_train)
RandomFit ==
    /\ s_pc = "random_fit"
    /\ calls' = Append(calls, Call("model_random_search", model_random_search, "fit", RandomFitArg))
    /\ \E seed \in 0..MaxSampleSeed :
         model_random_search' =
            FitSearch(model_random_search, df,
                      ParameterSampler(seed, model_random_search.param_grid.n_params,
                                       model_random_search.param_grid.width),
                      RandomFitArg)
    /\ s_pc' = "random_score"
    /\ UNCHANGED <<df, split, model, model_grid_search, fsVars, encVars, laterVars>>

\* model_random_search.score(df_test, target_test)
RandomScore ==
    /\ s_pc = "random_score"
    /\ calls' = Append(calls, Call("model_random_search", model_random_search, "score", df_test))
    /\ s_pc' = "done"
    /\ UNCHANGED <<df, split, model, model_grid_search, model_random_search, fsVars, encVars, laterVars>>

SearchNext ==
    \/ ReadCsv \/ TrainTestSplit \/ ModelFit
    \/ GridConstruct \/ GridFit \/ GridScore \/ GridPredict
    \/ RandomConstruct \/ RandomFit \/ RandomScore

SpecSearch == SearchInit /\ [][SearchNext]_vars

(***************************************************************************)
(* Claims on the hyper-parameter search notebook.                          *)
(***************************************************************************)
SearchOf(name) ==
    IF name = "model_grid_search" THEN model_grid_search ELSE model_random_search

\* C3: the hyper-parameters are tuned on the training side of the split only:
\* every fit (base pipeline, grid search, randomized search) receives exactly
\* df_train, every fit a search makes inside (per fold, and the final refit)
\* stays within df_train, and the test side is only given to score and
\* predict, on an object whose fit has completed.
C3_TunedOnTrainingOnly ==
    /\ split # NoSplit =>
        /\ split.train \cap split.test = {}
        /\ split.train \cup split.test = Rows
        /\ split.test # {}
    /\ \A i \in 1..Len(calls) :
        /\ calls[i].method = "fit" =>
            /\ calls[i].rows = split.train
            /\ calls[i].rows \cap split.test = {}
        /\ calls[i].method # "fit" =>
            /\ calls[i].rows # {}
            /\ calls[i].rows \subseteq split.test
            /\ calls[i].fitted
            /\ \E j \in 1..(i - 1) :
                  calls[j].obj = calls[i].obj /\ calls[j].method = "fit"
    /\ \A name \in {"model_grid_search", "model_random_search"} :
        SearchOf(name).fitted =>
            /\ SearchOf(name).best_estimator_.fit_rows = split.train
            /\ \A t \in 1..Len(SearchOf(name).tasks) :
                /\ SearchOf(name).tasks[t].fit_rows \subseteq split.train
                /\ SearchOf(name).tasks[t].score_rows \subseteq split.train
                /\ SearchOf(name).tasks[t].fit_rows
                       \cap SearchOf(name).tasks[t].score_rows = {}
    /\ s_pc = "done" =>
        {calls[i].obj : i \in {j \in 1..Len(calls) : calls[j].method = "fit"}}
            = {"model", "model_grid_search", "model_random_search"}

\* C3 witness: the notebook ran to its end: three fits, the test side scored
C3_Witness ==
    /\ s_pc = "done"
    /\ \E i \in 1..Len(calls) : calls[i].method = "score" /\ calls[i].rows = split.test

GridFitted == model_grid_search.fitted

\* C4: the grid search evaluates every combination of the listed values
\* exactly once: as many candidates as the product of the numbers of values,
\* each combination being exactly one candidate, each candidate fitted once
\* on each fold.
C4_GridExhaustive ==
    GridFitted =>
        LET g == model_grid_search.param_grid
            P == model_grid_search.params
            T == model_grid_search.tasks
        IN  /\ Len(P) = Len(g[GridKeys[1]]) * Len(g[GridKeys[2]])
            /\ \A a \in 1..Len(g[GridKeys[1]]), b \in 1..Len(g[GridKeys[2]]) :
                 Cardinality({c \in 1..Len(P) :
                                P[c] = <<g[GridKeys[1]][a], g[GridKeys[2]][b]>>}) = 1
            /\ Len(T) = Len(P) * grid_cv
            /\ \A c \in 1..Len(P), f \in 0..(grid_cv - 1) :
                 Cardinality({t \in 1..Len(T) :
                                /\ T[t].candidate = c
                                /\ T[t].fold = f
                                /\ T[t].params = P[c]}) = 1

\* C4 witness: a fitted grid search over several values of both parameters
C4_Witness ==
    /\ GridFitted
    /\ Len(model_grid_search.param_grid[GridKeys[1]]) >= 2
    /\ Len(model_grid_search.param_grid[GridKeys[2]]) >= 2
    /\ model_grid_search.param_grid # param_grid

\* C5: the grid of the notebook has 4 x 4 = 16 combinations and the grid
\* search fitted on it evaluates exactly 16 parameter configurations.
C5_SixteenConfigurations ==
    (GridFitted /\ model_grid_search.param_grid = param_grid) =>
        /\ Len(param_grid[GridKeys[1]]) = 4
        /\ Len(param_grid[GridKeys[2]]) = 4
        /\ Len(model_grid_search.params) = 16

\* C6: before fit the search has no best parameters and answers nothing;
\* once fitted, best_params_ is a combination of the grid whose mean
\* cross-validated score no evaluated candidate exceeds, the mean being that
\* of the candidate's fold scores, and score and predict are answered by the
\* pipeline refitted with exactly these parameters.
C6_BestParameters ==
    model_grid_search.kind = "GridSearchCV" =>
        LET gs == model_grid_search
            g == gs.param_grid
        IN  /\ ~gs.fitted =>
                /\ gs.best_params_ = <<>> /\ gs.best_estimator_ = NoEstimator
                /\ gs.mean_test_score = <<>>
                /\ \A i \in 1..Len(calls) : calls[i].obj # "model_grid_search"
            /\ gs.fitted =>
                /\ \E a \in 1..Len(g[GridKeys[1]]), b \in 1..Len(g[GridKeys[2]]) :
                      gs.best_params_ = <<g[GridKeys[1]][a], g[GridKeys[2]][b]>>
                /\ \A c \in 1..Len(gs.params) :
                      gs.mean_test_score[c] =
                         SumOver({t \in 1..Len(gs.tasks) : gs.tasks[t].candidate = c},
                                 [t \in 1..Len(gs.tasks) |-> gs.tasks[t].test_score])
                /\ \E c \in 1..Len(gs.params) :
                      /\ gs.params[c] = gs.best_params_
                      /\ \A c2 \in 1..Len(gs.params) :
                            gs.mean_test_score[c2] <= gs.mean_test_score[c]
                /\ gs.best_estimator_.params = gs.best_params_
                /\ \A i \in 1..Len(calls) :
                      (calls[i].obj = "model_grid_search" /\ calls[i].method # "fit") =>
                          calls[i].answered_by =
                              [params |-> gs.best_params_, fit_rows |-> split.train]

\* C6 witness: the fitted search predicted, its best candidate is not the
\* first of the grid and scores strictly better than another candidate
C6_Witness ==
    /\ GridFitted
    /\ model_grid_search.best_index_ # 1
    /\ \E c \in 1..Len(model_grid_search.params) :
          model_grid_search.mean_test_score[c]
              < model_grid_search.mean_test_score[model_grid_search.best_index_]
    /\ \E i \in 1..Len(calls) :
          calls[i].obj = "model_grid_search" /\ calls[i].method = "predict"

\* C7: the randomized search runs on a budget fixed when it is constructed:
\* n_iter candidates, each fitted once on each of the cv folds, n_iter * cv
\* fits, whatever the number of parameters and the width of the distributions.
C7_FixedBudget ==
    model_random_search.kind = "RandomizedSearchCV" =>
        LET rs == model_random_search
        IN  /\ rs.budget = n_iter * random_cv
            /\ rs.fitted =>
                /\ Len(rs.params) = n_iter
                /\ Len(rs.tasks) = rs.budget
                /\ \A c \in 1..n_iter, f \in 0..(random_cv - 1) :
                     Cardinality({t \in 1..Len(rs.tasks) :
                                    rs.tasks[t].candidate = c /\ rs.tasks[t].fold = f}) = 1
                /\ \A c \in 1..n_iter : Len(rs.params[c]) = rs.param_grid.n_params

\* C7 witness: a fitted randomized search over the most parameters, which
\* drew the same candidate twice
C7_Witness ==
    /\ model_random_search.fitted
    /\ model_random_search.param_grid.n_params = MaxParams
    /\ \E c, c2 \in 1..n_iter :
          c # c2 /\ model_random_search.params[c] = model_random_search.params[c2]

\* C10 as stated: no object of the notebook is given a number of workers
C10_NoWorkersRequested ==
    /\ model.n_jobs = {}
    /\ model_grid_search.n_jobs = {}
    /\ model_random_search.n_jobs = {}

\* the calls of the notebook, in the order of its cells
CallOrder ==
    <<  <<"model", "fit">>,
        <<"model_grid_search", "fit">>, <<"model_grid_search", "score">>,
        <<"model_grid_search", "predict">>,
        <<"model_random_search", "fit">>, <<"model_random_search", "score">> >>

\* C10 amended: the cells run one after the other, in order, but the
\* notebook does request workers: both searches are constructed with
\* n_jobs = 4; only the base pipeline leaves the choice to the library.
C10_WorkersRequestedBySearches ==
    /\ Len(calls) <= Len(CallOrder)
    /\ \A i \in 1..Len(calls) : <<calls[i].obj, calls[i].method>> = CallOrder[i]
    /\ model.n_jobs = {}
    /\ model_grid_search.kind = "GridSearchCV" => model_grid_search.n_jobs = {4}
    /\ model_random_search.kind = "RandomizedSearchCV" => model_random_search.n_jobs = {4}

\* C10 witness: the notebook ran to its end with both searches on 4 workers
C10_Witness ==
    /\ s_pc = "done"
    /\ model_grid_search.n_jobs = {4} /\ model_random_search.n_jobs = {4}

(***************************************************************************)
(* unnamed/part_000 (exercise 01 on categorical variables and its          *)
(* solution) and unnamed/part_003 (ColumnTransformer).                     *)
(*                                                                         *)
(* The CSV file is not part of the repository: a seed stands for the table *)
(* it holds.  Only the categorical columns are modelled, column 1 being    *)
(* 'sex'; numerical columns have no categories to be unknown.              *)
(***************************************************************************)
n_enc_rows == 5
n_cat_columns == 2
MaxCategory == 2

\* cross_val_score(model, data, target, cv=5), and the default of cv
cv_folds == 5

ERows == 1..n_enc_rows
CatColumns == 1..n_cat_columns

\* pd.read_csv("../datasets/adult-census.csv") of a well-formed file
read_csv(seed) ==
    [r \in ERows |-> [c \in CatColumns |->
        Draw(seed, (r - 1) * n_cat_columns + c, MaxCategory + 1)]]

Range(seq) == {seq[i] : i \in 1..Len(seq)}

RECURSIVE SortSet(_)
SortSet(S) ==
    IF S = {} THEN <<>>
    ELSE LET m == CHOOSE m \in S : \A x \in S : m <= x
         IN  <<m>> \o SortSet(S \ {m})

\* data[column].unique() over rows: the distinct values, in order of appearance
unique(data, rows, c) ==
    Dedup([i \in 1..Cardinality(rows) |-> data[SortSet(rows)[i]][c]])

\* np.unique of a column over rows: the distinct values, sorted
np_unique(data, rows, c) == SortSet({data[r][c] : r \in rows})

(***************************************************************************)
(* The encoders.  categories_ is what fit learns: the lists given to the   *)
(* constructor, or with categories='auto' the values of the fitted rows.   *)
(***************************************************************************)
\* OrdinalEncoder() / OrdinalEncoder(categories=cats): an unknown value is an error
OrdinalEncoder(auto, cats, cols) ==
    [kind |-> "OrdinalEncoder", auto |-> auto, categories |-> cats,
     handle_unknown |-> "error", columns |-> cols, categories_ |-> <<>>]

\* a one-hot encoder left at the default of handle_unknown
OneHotHandleUnknown_Error == "error"

\* OneHotEncoder(handle_unknown="ignore")
OneHotHandleUnknown == "ignore"

OneHotEncoder(cols) ==
    [kind |-> "OneHotEncoder", auto |-> TRUE, categories |-> <<>>,
     handle_unknown |-> OneHotHandleUnknown, columns |-> cols, categories_ |-> <<>>]

\* the cells <<row, column, encoder>> of rows whose value is in no list of cats
Unknown(enc, cats, data, rows) ==
    {<<r, enc.columns[i], enc.kind>> : <<r, i>> \in
        {ri \in rows \X (1..Len(enc.columns)) :
            data[ri[1]][enc.columns[ri[2]]] \notin Range(cats[ri[2]])}}

\* encoder.fit(data[rows]): given lists are checked against the fitted rows
EncoderFit(enc, data, rows) ==
    LET cats == IF enc.auto
                THEN [i \in 1..Len(enc.columns) |-> np_unique(data, rows, enc.columns[i])]
                ELSE enc.categories
        unknown == IF enc.auto THEN {} ELSE Unknown(enc, cats, data, rows)
    IN  [enc |-> [enc EXCEPT !.categories_ = cats],
         unknown |-> unknown,
         raised |-> enc.handle_unknown = "error" /\ unknown # {}]

\* encoder.transform(data[rows]): a value outside categories_ raises, or with
\* handle_unknown="ignore" is encoded as zeros
EncoderTransform(enc, data, rows) ==
    LET unknown == Unknown(enc, enc.categories_, data, rows)
    IN  [unknown |-> unknown,
         raised |-> enc.handle_unknown = "error" /\ unknown # {}]

\* make_pipeline(preprocessor, classifier): the encoders of the preprocessor
Pipeline(name, encoders) == [name |-> name, encoders |-> encoders, fitted |-> FALSE]

\* what a call met: the unknown cells of the encoders that raise on them
\* (met_error) and of the encoders that ignore them (met_ignored)
Met(m, results, handling) ==
    UNION {results[i].unknown :
             i \in {j \in 1..Len(m.encoders) : m.encoders[j].handle_unknown = handling}}

\* model.fit(data[rows], target[rows])
PipelineFit(m, data, rows) ==
    LET fits == [i \in 1..Len(m.encoders) |-> EncoderFit(m.encoders[i], data, rows)]
    IN  [model |-> [m EXCEPT !.encoders = [i \in 1..Len(m.encoders) |-> fits[i].enc],
                             !.fitted = TRUE],
         met_error |-> Met(m, fits, "error"),
         met_ignored |-> Met(m, fits, "ignore"),
         raised |-> \E i \in 1..Len(m.encoders) : fits[i].raised]

\* model.predict(data[rows]), model.score(data[rows], target[rows])
PipelinePredict(m, data, rows) ==
    LET outs == [i \in 1..Len(m.encoders) |-> EncoderTransform(m.encoders[i], data, rows)]
    IN  [model |-> m,
         met_error |-> Met(m, outs, "error"),
         met_ignored |-> Met(m, outs, "ignore"),
         raised |-> \E i \in 1..Len(m.encoders) : outs[i].raised]

(***************************************************************************)
(* cross_val_score(model, data, target, cv=5): the folds in order; each    *)
(* fits a clone of the model on the fold's training rows and scores it on  *)
(* the fold's test rows.  A fit that fails gives the fold the score nan    *)
(* (error_score); a scoring that fails raises or gives nan as well,        *)
(* depending on the release of the library (scoring_raises).  The target   *)
(* is not modelled: the rows are dealt to the folds in turn.               *)
(***************************************************************************)
FoldTest(f) == {r \in ERows : (r - 1) % cv_folds = f}

FoldRun(m, data, f) ==
    LET fit == PipelineFit(m, data, ERows \ FoldTest(f))
        pred == PipelinePredict(fit.model, data, FoldTest(f))
    IN  [fit_failed |-> fit.raised,
         score_failed |-> ~fit.raised /\ pred.raised,
         met_error |-> IF fit.raised THEN fit.met_error
                       ELSE fit.met_error \cup pred.met_error,
         met_ignored |-> IF fit.raised THEN fit.met_ignored
                         ELSE fit.met_ignored \cup pred.met_ignored]

cross_val_score(m, data, scoring_raises) ==
    LET run == [f \in 0..(cv_folds - 1) |-> FoldRun(m, data, f)]
        stop == {f \in 0..(cv_folds - 1) : scoring_raises /\ run[f].score_failed}
        ran == {f \in 0..(cv_folds - 1) : \A g \in stop : f <= g}
    IN  [model |-> m,
         met_error |-> UNION {run[f].met_error : f \in ran},
         met_ignored |-> UNION {run[f].met_ignored : f \in ran},
         raised |-> stop # {}]

\* the record of a library call made by the cell at e_pc
LogCall(method, rows, res) ==
    [cell |-> e_pc, method |-> method, model |-> res.model.name, rows |-> rows,
     met_error |-> res.met_error, met_ignored |-> res.met_ignored,
     raised |-> res.raised]

\* a cell runs: an exception it raises is caught by no cell and by no
\* statement of the cell, the notebook stops there; else the next cell is due
RunCell(cell, next, raised, type) ==
    /\ e_pc = cell
    /\ e_exc = NoExc
    /\ e_exc' = IF raised THEN [cell |-> cell, type |-> type] ELSE NoExc
    /\ e_pc' = IF raised THEN cell ELSE next

\* df = pd.read_csv(...): a malformed file raises, a well-formed one gives its table
ReadCsvCell(next) ==
    \E wellformed \in BOOLEAN, seed \in Seeds :
        /\ RunCell("read_csv", next, ~wellformed, "ParserError")
        /\ e_data' = IF wellformed THEN read_csv(seed) ELSE e_data
        /\ e_calls' = Append(e_calls,
              LogCall("read_csv", {},
                      [model |-> NoModel, met_error |-> {}, met_ignored |-> {},
                       raised |-> ~wellformed]))

EncInit ==
    /\ FSIdle
    /\ SearchIdle
    /\ NamesIdle /\ FilesIdle /\ DeployIdle /\ ShortenIdle
    /\ e_nb \in {"part_000", "part_003"}
    /\ e_pc = "read_csv"
    /\ e_data = <<>>
    /\ e_columns = NoColumns
    /\ e_split = NoSplit
    /\ categories = <<>>
    /\ e_model = NoModel
    /\ e_exc = NoExc
    /\ e_calls = <<>>

(***************************************************************************)
(* unnamed/part_003: the cells of the ColumnTransformer notebook.          *)
(***************************************************************************)
\* df = pd.read_csv("../datasets/adult-census.csv"); target = ...; data = ...
CtReadCsv ==
    /\ e_nb = "part_003"
    /\ ReadCsvCell("columns")
    /\ UNCHANGED <<e_nb, e_columns, e_split, categories, e_model, fsVars, searchVars, laterVars>>

\* categorical_columns = categorical_columns_selector(data)
\* binary_encoding_columns = ['sex']
\* one_hot_encoding_columns = [c for c in categorical_columns if c not in binary_encoding_columns]
CtColumns ==
    /\ e_nb = "part_003"
    /\ RunCell("columns", "linear_model", FALSE, "")
    /\ e_columns' = [categorical |-> [i \in 1..n_cat_columns |-> i],
                     binary |-> <<1>>,
                     one_hot |-> [i \in 1..(n_cat_columns - 1) |-> i + 1]]
    /\ UNCHANGED <<e_nb, e_data, e_split, categories, e_model, e_calls, fsVars, searchVars, laterVars>>

\* preprocessor = ColumnTransformer([('binary-encoder', OrdinalEncoder(), ...),
\*     ('one-hot-encoder', OneHotEncoder(handle_unknown='ignore'), ...), ...])
\* model = make_pipeline(preprocessor, LogisticRegression(max_iter=1000))
CtLinearModel ==
    /\ e_nb = "part_003"
    /\ RunCell("linear_model", "split", FALSE, "")
    /\ e_model' = Pipeline("linear", <<OrdinalEncoder(TRUE, <<>>, e_columns.binary),
                                       OneHotEncoder(e_columns.one_hot)>>)
    /\ UNCHANGED <<e_nb, e_data, e_columns, e_split, categories, e_calls, fsVars, searchVars, laterVars>>

\* train_test_split(data, target, random_state=42): a quarter of the rows,
\* rounded up, is the test side; the rows of the file being unknown, any
\* rows may be the ones the fixed shuffle puts there
enc_n_test == (n_enc_rows + 3) \div 4

CtSplit ==
    /\ e_nb = "part_003"
    /\ RunCell("split", "fit_linear", FALSE, "")
    /\ \E test \in SUBSET ERows :
        /\ Cardinality(test) = enc_n_test
        /\ e_split' = [train |-> ERows \ test, test |-> test]
    /\ UNCHANGED <<e_nb, e_data, e_columns, categories, e_model, e_calls, fsVars, searchVars, laterVars>>

\* a call of the model bound to the name model, by the cell at e_pc
ModelCall(cell, next, method, rows, res) ==
    /\ RunCell(cell, next, res.raised, "ValueError")
    /\ e_calls' = Append(e_calls, LogCall(method, rows, res))
    /\ e_model' = IF method = "fit" /\ ~res.raised THEN res.model ELSE e_model

\* _ = model.fit(data_train, target_train)
CtFitLinear ==
    /\ e_nb = "part_003"
    /\ ModelCall("fit_linear", "predict_linear", "fit", e_split.train,
                 PipelineFit(e_model, e_data, e_split.train))
    /\ UNCHANGED <<e_nb, e_data, e_columns, e_split, categories, fsVars, searchVars, laterVars>>

\* model.predict(data_test)[:5]
CtPredictLinear ==
    /\ e_nb = "part_003"
    /\ ModelCall("predict_linear", "score_linear", "predict", e_split.test,
                 PipelinePredict(e_model, e_data, e_split.test))
    /\ UNCHANGED <<e_nb, e_data, e_columns, e_split, categories, fsVars, searchVars, laterVars>>

\* model.score(data_test, target_test)
CtScoreLinear ==
    /\ e_nb = "part_003"
    /\ ModelCall("score_linear", "cross_val", "score", e_split.test,
                 PipelinePredict(e_model, e_data, e_split.test))
    /\ UNCHANGED <<e_nb, e_data, e_columns, e_split, categories, fsVars, searchVars, laterVars>>

\* scores = cross_val_score(model, data, target, cv=5)
CtCrossVal ==
    /\ e_nb = "part_003"
    /\ \E scoring_raises \in BOOLEAN :
        ModelCall("cross_val", "boosting_model", "cross_val_score", ERows,
                  cross_val_score(e_model, e_data, scoring_raises))
    /\ UNCHANGED <<e_nb, e_data, e_columns, e_split, categories, fsVars, searchVars, laterVars>>

\* categories computed from the training side of the split only
CategoriesSource_Train == e_split.train

\* the rows of data the lists of categories are computed from: all of them
CategoriesSource == ERows

\* categories = [data[column].unique() for column in categorical_columns]
Categories(data, cols) ==
    [i \in 1..Len(cols) |-> unique(data, CategoriesSource, cols[i])]

\* categories = [...]
\* preprocessor = ColumnTransformer([('categorical',
\*     OrdinalEncoder(categories=categories), categorical_columns)], remainder="passthrough")
\* model = make_pipeline(preprocessor, HistGradientBoostingClassifier())
CtBoostingModel ==
    /\ e_nb = "part_003"
    /\ RunCell("boosting_model", "fit_boosting", FALSE, "")
    /\ categories' = Categories(e_data, e_columns.categorical)
    /\ e_model' = Pipeline("boosting",
                      <<OrdinalEncoder(FALSE, categories', e_columns.categorical)>>)
    /\ UNCHANGED <<e_nb, e_data, e_columns, e_split, e_calls, fsVars, searchVars, laterVars>>

\* _ = model.fit(data_train, target_train)
CtFitBoosting ==
    /\ e_nb = "part_003"
    /\ ModelCall("fit_boosting", "score_boosting", "fit", e_split.train,
                 PipelineFit(e_model, e_data, e_split.train))
    /\ UNCHANGED <<e_nb, e_data, e_columns, e_split, categories, fsVars, searchVars, laterVars>>

\* model.score(data_test, target_test)
CtScoreBoosting ==
    /\ e_nb = "part_003"
    /\ ModelCall("score_boosting", "done", "score", e_split.test,
                 PipelinePredict(e_model, e_data, e_split.test))
    /\ UNCHANGED <<e_nb, e_data, e_columns, e_split, categories, fsVars, searchVars, laterVars>>

(***************************************************************************)
(* unnamed/part_000: the cells of the solution of exercise 01.             *)
(***************************************************************************)
\* df = pd.read_csv("../datasets/adult-census.csv"); target = ...; data = ...
ExReadCsv ==
    /\ e_nb = "part_000"
    /\ ReadCsvCell("columns")
    /\ UNCHANGED <<e_nb, e_columns, e_split, categories, e_model, fsVars, searchVars, laterVars>>

\* categorical_columns = categorical_columns_selector(data)
\* data_categorical = data[categorical_columns]
ExColumns ==
    /\ e_nb = "part_000"
    /\ RunCell("columns", "categories", FALSE, "")
    /\ e_columns' = [categorical |-> [i \in 1..n_cat_columns |-> i],
                     binary |-> <<>>, one_hot |-> <<>>]
    /\ UNCHANGED <<e_nb, e_data, e_split, categories, e_model, e_calls, fsVars, searchVars, laterVars>>

\* categories = [data[column].unique() for column in data[categorical_columns]]
ExCategories ==
    /\ e_nb = "part_000"
    /\ RunCell("categories", "cross_val_ordinal", FALSE, "")
    /\ categories' = Categories(e_data, e_columns.categorical)
    /\ UNCHANGED <<e_nb, e_data, e_columns, e_split, e_model, e_calls, fsVars, searchVars, laterVars>>

\* a cell that binds model to a new pipeline and cross-validates it
CrossValCell(cell, next, m) ==
    /\ \E scoring_raises \in BOOLEAN :
        /\ RunCell(cell, next, cross_val_score(m, e_data, scoring_raises).raised, "ValueError")
        /\ e_calls' = Append(e_calls,
              LogCall("cross_val_score", ERows, cross_val_score(m, e_data, scoring_raises)))
    /\ e_model' = m

\* model = make_pipeline(OrdinalEncoder(categories=categories), LogisticRegression(max_iter=1000))
\* scores = cross_val_score(model, data_categorical, target)
ExCrossValOrdinal ==
    /\ e_nb = "part_000"
    /\ CrossValCell("cross_val_ordinal", "cross_val_dummy",
                    Pipeline("ordinal",
                        <<OrdinalEncoder(FALSE, categories, e_columns.categorical)>>))
    /\ UNCHANGED <<e_nb, e_data, e_columns, e_split, categories, fsVars, searchVars, laterVars>>

\* scores = cross_val_score(DummyClassifier(strategy="most_frequent"), data_categorical, target)
ExCrossValDummy ==
    /\ e_nb = "part_000"
    /\ \E scoring_raises \in BOOLEAN :
        /\ RunCell("cross_val_dummy", "cross_val_one_hot",
                   cross_val_score(Pipeline("dummy", <<>>), e_data, scoring_raises).raised,
                   "ValueError")
        /\ e_calls' = Append(e_calls,
              LogCall("cross_val_score", ERows,
                      cross_val_score(Pipeline("dummy", <<>>), e_data, scoring_raises)))
    /\ UNCHANGED <<e_nb, e_data, e_columns, e_split, categories, e_model, fsVars, searchVars, laterVars>>

\* model = make_pipeline(OneHotEncoder(handle_unknown="ignore"), LogisticRegression(max_iter=1000))
\* scores = cross_val_score(model, data_categorical, target)
ExCrossValOneHot ==
    /\ e_nb = "part_000"
    /\ CrossValCell("cross_val_one_hot", "done",
                    Pipeline("one_hot", <<OneHotEncoder(e_columns.categorical)>>))
    /\ UNCHANGED <<e_nb, e_data, e_columns, e_split, categories, fsVars, searchVars, laterVars>>

EncNext ==
    \/ CtReadCsv \/ CtColumns \/ CtLinearModel \/ CtSplit
    \/ CtFitLinear \/ CtPredictLinear \/ CtScoreLinear \/ CtCrossVal
    \/ CtBoostingModel \/ CtFitBoosting \/ CtScoreBoosting
    \/ ExReadCsv \/ ExColumns \/ ExCategories
    \/ ExCrossValOrdinal \/ ExCrossValDummy \/ ExCrossValOneHot

SpecEnc == EncInit /\ [][EncNext]_vars

(***************************************************************************)
(* Claims on the notebooks that encode categorical columns.                *)
(***************************************************************************)
\* the pipelines whose OrdinalEncoder is given the precomputed categories
Precomputed == {"boosting", "ordinal"}

\* C8: the lists of categories are computed from the whole of data, one per
\* categorical column and in the order of the columns handed to the encoder,
\* each holding exactly the distinct values of its column; hence no call of a
\* pipeline built on them meets an unknown category or raises, whatever the
\* split and the folds, and the same is true of a fit and a prediction on
\* any partition of the rows.
C8_PrecomputedCategoriesCoverEveryRow ==
    /\ categories # <<>> =>
        /\ Len(categories) = Len(e_columns.categorical)
        /\ \A i \in 1..Len(categories) :
              Range(categories[i]) = {e_data[r][e_columns.categorical[i]] : r \in ERows}
    /\ \A i \in 1..Len(e_calls) :
          e_calls[i].model \in Precomputed =>
              /\ e_calls[i].met_error = {}
              /\ e_calls[i].met_ignored = {}
              /\ ~e_calls[i].raised
    /\ e_model.name \in Precomputed =>
          \A fit_rows \in SUBSET ERows :
              LET fit == PipelineFit(e_model, e_data, fit_rows)
                  pred == PipelinePredict(fit.model, e_data, ERows \ fit_rows)
              IN  /\ ~fit.raised /\ fit.met_error = {}
                  /\ ~pred.raised /\ pred.met_error = {}

\* C8 witness: the pipeline on the precomputed categories was fitted on the
\* training side and scored on a test side that holds, in some categorical
\* column, a value no training row has
C8_Witness ==
    /\ e_pc = "done"
    /\ e_nb = "part_003"
    /\ \E i \in 1..Len(e_calls) :
          /\ e_calls[i].model = "boosting"
          /\ e_calls[i].method = "score"
          /\ e_calls[i].rows = e_split.test
    /\ \E r \in e_split.test, c \in CatColumns :
          \A r2 \in e_split.train : e_data[r2][c] # e_data[r][c]

\* C9 as stated: every failure surfaces as an exception that stops the
\* notebook: a call that met an unknown category raised, and so did the
\* reading of a malformed file
C9_EveryFailureRaises ==
    \A i \in 1..Len(e_calls) :
        /\ (e_calls[i].met_error \cup e_calls[i].met_ignored) # {} =>
              /\ e_calls[i].raised
              /\ e_exc # NoExc
        /\ (e_calls[i].method = "read_csv" /\ e_data = <<>>) => e_calls[i].raised

\* C9 amended: no cell catches an exception: an exception stops the notebook
\* at the cell that raised it, the raising call being the last call made and
\* no cell being left to run; a malformed file raises when read, and an
\* unknown category that reaches an OrdinalEncoder in a direct fit, predict
\* or score raises.  But an unknown category that reaches a OneHotEncoder
\* raises nothing: these encoders are built with handle_unknown="ignore".
C9_ExceptionsStopUnknownOneHotIgnored ==
    /\ e_exc # NoExc =>
        /\ e_pc = e_exc.cell
        /\ Len(e_calls) > 0
        /\ e_calls[Len(e_calls)].raised
        /\ e_calls[Len(e_calls)].cell = e_exc.cell
        /\ ~ENABLED EncNext
    /\ \A i \in 1..Len(e_calls) :
        /\ e_calls[i].raised => (i = Len(e_calls) /\ e_exc # NoExc)
        /\ e_calls[i].method = "read_csv" =>
              (e_calls[i].raised <=> e_data = <<>>)
        /\ e_calls[i].method \in {"fit", "predict", "score"} =>
              (e_calls[i].raised <=> e_calls[i].met_error # {})
        /\ e_calls[i].raised =>
              (e_calls[i].method = "read_csv" \/ e_calls[i].met_error # {})
        /\ \A cell \in e_calls[i].met_error : cell[3] = "OrdinalEncoder"
        /\ \A cell \in e_calls[i].met_ignored : cell[3] = "OneHotEncoder"

\* C9 witness: a prediction met an unknown category in a one-hot encoded
\* column, raised nothing, and the notebook went on to its last cell
C9_Witness ==
    /\ e_pc = "done"
    /\ e_exc = NoExc
    /\ \E i \in 1..Len(e_calls) :
          /\ e_calls[i].method = "predict"
          /\ e_calls[i].met_ignored # {}
          /\ ~e_calls[i].raised

(***************************************************************************)
(* The names of the notebooks.  Every top-level statement of every code    *)
(* cell, in the order of the file, with the line it starts at, the global  *)
(* names it reads before binding them itself (reads), the global names it  *)
(* binds (binds) and, for a def or class statement, the global names its   *)
(* body reads when it is called (defs).  Builtins are always bound and are *)
(* left out; comprehension variables, parameters and attributes are not    *)
(* global names.                                                           *)
(***************************************************************************)
\* src/notebooks/04_parameter_tuning_search.ipynb
Statements_04_parameter_tuning_search ==
    << [line |-> 29, reads |-> {}, binds |-> {"pd"}, defs |-> {}],
      [line |-> 31, reads |-> {"pd"}, binds |-> {"df"}, defs |-> {}],
      [line |-> 40, reads |-> {}, binds |-> {"target_name"}, defs |-> {}],
      [line |-> 41, reads |-> {"df", "target_name"}, binds |-> {"target"},
          defs |-> {}],
      [line |-> 42, reads |-> {"target"}, binds |-> {}, defs |-> {}],
      [line |-> 51, reads |-> {"df", "target_name"}, binds |-> {"data"},
          defs |-> {}],
      [line |-> 52, reads |-> {"data"}, binds |-> {}, defs |-> {}],
      [line |-> 68, reads |-> {}, binds |-> {"train_test_split"},
          defs |-> {}],
      [line |-> 70, reads |-> {"data", "target", "train_test_split"},
          binds |-> {"df_test", "df_train", "target_test", "target_train"},
          defs |-> {}],
      [line |-> 88, reads |-> {}, binds |-> {"ColumnTransformer"},
          defs |-> {}],
      [line |-> 89, reads |-> {}, binds |-> {"selector"}, defs |-> {}],
      [line |-> 91, reads |-> {}, binds |-> {"OrdinalEncoder"},
          defs |-> {}],
      [line |-> 93, reads |-> {"selector"},
          binds |-> {"categorical_columns_selector"}, defs |-> {}],
      [line |-> 94, reads |-> {"categorical_columns_selector", "data"},
          binds |-> {"categorical_columns"}, defs |-> {}],
      [line |-> 96, reads |-> {"categorical_columns", "data"},
          binds |-> {"categories"}, defs |-> {}],
      [line |-> 99, reads |-> {"OrdinalEncoder", "categories"},
          binds |-> {"categorical_preprocessor"}, defs |-> {}],
      [line |-> 101, reads |-> {"ColumnTransformer",
          "categorical_columns", "categorical_preprocessor"},
          binds |-> {"preprocessor"}, defs |-> {}],
      [line |-> 123, reads |-> {},
          binds |-> {"enable_hist_gradient_boosting"}, defs |-> {}],
      [line |-> 124, reads |-> {},
          binds |-> {"HistGradientBoostingClassifier"}, defs |-> {}],
      [line |-> 125, reads |-> {}, binds |-> {"Pipeline"}, defs |-> {}],
      [line |-> 127, reads |-> {"HistGradientBoostingClassifier",
          "Pipeline", "preprocessor"}, binds |-> {"model"}, defs |-> {}],
      [line |-> 131, reads |-> {"df_train", "model", "target_train"},
          binds |-> {}, defs |-> {}],
      [line |-> 156, reads |-> {}, binds |-> {"np"}, defs |-> {}],
      [line |-> 157, reads |-> {}, binds |-> {"GridSearchCV"},
          defs |-> {}],
      [line |-> 159, reads |-> {}, binds |-> {"param_grid"}, defs |-> {}],
      [line |-> 162, reads |-> {"GridSearchCV", "model", "param_grid"},
          binds |-> {"model_grid_search"}, defs |-> {}],
      [line |-> 164, reads |-> {"df_train", "model_grid_search",
          "target_train"}, binds |-> {}, defs |-> {}],
      [line |-> 166, reads |-> {"df_test", "model_grid_search",
          "target_test"}, binds |-> {}, defs |-> {}],
      [line |-> 197, reads |-> {"df_test", "model_grid_search"},
          binds |-> {}, defs |-> {}],
      [line |-> 214, reads |-> {"model_grid_search"}, binds |-> {},
          defs |-> {}],
      [line |-> 242, reads |-> {"model_grid_search", "pd"},
          binds |-> {"cv_results"}, defs |-> {}],
      [line |-> 244, reads |-> {"cv_results"}, binds |-> {}, defs |-> {}],
      [line |-> 262, reads |-> {"param_grid"},
          binds |-> {"column_results"}, defs |-> {}],
      [line |-> 263, reads |-> {"column_results"},
          binds |-> {"column_results"}, defs |-> {}],
      [line |-> 265, reads |-> {"column_results", "cv_results"},
          binds |-> {"cv_results"}, defs |-> {}],
      [line |-> 274, reads |-> {}, binds |-> {"shorten_param"},
          defs |-> {}],
      [line |-> 280, reads |-> {"cv_results", "shorten_param"},
          binds |-> {"cv_results"}, defs |-> {}],
      [line |-> 281, reads |-> {"cv_results"}, binds |-> {}, defs |-> {}],
      [line |-> 301, reads |-> {"cv_results"},
          binds |-> {"pivoted_cv_results"}, defs |-> {}],
      [line |-> 305, reads |-> {"pivoted_cv_results"}, binds |-> {},
          defs |-> {}],
      [line |-> 314, reads |-> {}, binds |-> {"plt"}, defs |-> {}],
      [line |-> 315, reads |-> {}, binds |-> {"heatmap"}, defs |-> {}],
      [line |-> 317, reads |-> {"heatmap", "pivoted_cv_results"},
          binds |-> {"ax"}, defs |-> {}],
      [line |-> 319, reads |-> {"ax"}, binds |-> {}, defs |-> {}],
      [line |-> 367, reads |-> {}, binds |-> {"reciprocal"}, defs |-> {}],
      [line |-> 368, reads |-> {}, binds |-> {"RandomizedSearchCV"},
          defs |-> {}],
      [line |-> 369, reads |-> {}, binds |-> {"pprint"}, defs |-> {}],
      [line |-> 372, reads |-> {}, binds |-> {"reciprocal_int"},
          defs |-> {<<"reciprocal_int", "reciprocal">>}],
      [line |-> 382, reads |-> {"reciprocal", "reciprocal_int"},
          binds |-> {"param_distributions"}, defs |-> {}],
      [line |-> 388, reads |-> {"RandomizedSearchCV", "model",
          "param_distributions"}, binds |-> {"model_random_search"},
          defs |-> {}],
      [line |-> 391, reads |-> {"df_train", "model_random_search",
          "target_train"}, binds |-> {}, defs |-> {}],
      [line |-> 393, reads |-> {"df_test", "model_random_search",
          "target_test"}, binds |-> {}, defs |-> {}],
      [line |-> 403, reads |-> {}, binds |-> {}, defs |-> {}],
      [line |-> 404, reads |-> {"model_random_search", "pprint"},
          binds |-> {}, defs |-> {}],
      [line |-> 422, reads |-> {"param_distributions"},
          binds |-> {"column_results"}, defs |-> {}],
      [line |-> 424, reads |-> {"column_results"},
          binds |-> {"column_results"}, defs |-> {}],
      [line |-> 427, reads |-> {"model_random_search", "pd"},
          binds |-> {"cv_results"}, defs |-> {}],
      [line |-> 428, reads |-> {"column_results", "cv_results"},
          binds |-> {"cv_results"}, defs |-> {}],
      [line |-> 430, reads |-> {"cv_results", "shorten_param"},
          binds |-> {"cv_results"}, defs |-> {}],
      [line |-> 431, reads |-> {"cv_results"}, binds |-> {}, defs |-> {}],
      [line |-> 464, reads |-> {"pd"}, binds |-> {"cv_results"},
          defs |-> {}],
      [line |-> 482, reads |-> {"column_results", "cv_results",
          "shorten_param"}, binds |-> {}, defs |-> {}],
      [line |-> 492, reads |-> {}, binds |-> {"px"}, defs |-> {}],
      [line |-> 494, reads |-> {"cv_results", "np", "px",
          "shorten_param"}, binds |-> {"fig"}, defs |-> {}],
      [line |-> 505, reads |-> {"fig"}, binds |-> {}, defs |-> {}] >>

\* src/notebooks/feature_selection.ipynb
Statements_feature_selection ==
    << [line |-> 30, reads |-> {}, binds |-> {"make_classification"},
          defs |-> {}],
      [line |-> 32, reads |-> {"make_classification"}, binds |-> {"X",
          "y"}, defs |-> {}],
      [line |-> 64, reads |-> {}, binds |-> {"RandomForestClassifier"},
          defs |-> {}],
      [line |-> 65, reads |-> {}, binds |-> {"SelectKBest"}, defs |-> {}],
      [line |-> 66, reads |-> {}, binds |-> {"f_classif"}, defs |-> {}],
      [line |-> 67, reads |-> {}, binds |-> {"make_pipeline"},
          defs |-> {}],
      [line |-> 69, reads |-> {"RandomForestClassifier"},
          binds |-> {"model_without_selection"}, defs |-> {}],
      [line |-> 70, reads |-> {"RandomForestClassifier", "SelectKBest",
          "f_classif", "make_pipeline"}, binds |-> {"model_with_selection"},
          defs |-> {}],
      [line |-> 91, reads |-> {}, binds |-> {"pd"}, defs |-> {}],
      [line |-> 92, reads |-> {}, binds |-> {"cross_validate"},
          defs |-> {}],
      [line |-> 94, reads |-> {"X", "cross_validate",
          "model_without_selection", "pd", "y"},
          binds |-> {"cv_results_without_selection"}, defs |-> {}],
      [line |-> 97, reads |-> {"X", "cross_validate",
          "model_with_selection", "pd", "y"},
          binds |-> {"cv_results_with_selection"}, defs |-> {}],
      [line |-> 108, reads |-> {"cv_results_with_selection",
          "cv_results_without_selection", "pd"}, binds |-> {"cv_results"},
          defs |-> {}],
      [line |-> 128, reads |-> {}, binds |-> {"plt"}, defs |-> {}],
      [line |-> 130, reads |-> {"cv_results"}, binds |-> {}, defs |-> {}],
      [line |-> 131, reads |-> {"plt"}, binds |-> {}, defs |-> {}],
      [line |-> 132, reads |-> {"plt"}, binds |-> {"_"}, defs |-> {}],
      [line |-> 141, reads |-> {"cv_results"}, binds |-> {}, defs |-> {}],
      [line |-> 142, reads |-> {"plt"}, binds |-> {}, defs |-> {}],
      [line |-> 143, reads |-> {"plt"}, binds |-> {"_"}, defs |-> {}],
      [line |-> 163, reads |-> {"cv_results"}, binds |-> {}, defs |-> {}],
      [line |-> 164, reads |-> {"plt"}, binds |-> {}, defs |-> {}],
      [line |-> 165, reads |-> {"plt"}, binds |-> {"_"}, defs |-> {}],
      [line |-> 187, reads |-> {}, binds |-> {"np"}, defs |-> {}],
      [line |-> 189, reads |-> {"cv_results_with_selection", "np"},
          binds |-> {"idx", "pipeline"}, defs |-> {}],
      [line |-> 244, reads |-> {"np"}, binds |-> {"rng"}, defs |-> {}],
      [line |-> 245, reads |-> {"rng"}, binds |-> {"X", "y"}, defs |-> {}],
      [line |-> 254, reads |-> {}, binds |-> {"cross_val_score"},
          defs |-> {}],
      [line |-> 255, reads |-> {}, binds |-> {"LogisticRegression"},
          defs |-> {}],
      [line |-> 257, reads |-> {"LogisticRegression"},
          binds |-> {"model"}, defs |-> {}],
      [line |-> 258, reads |-> {"X", "cross_val_score", "model", "y"},
          binds |-> {"test_score"}, defs |-> {}],
      [line |-> 259, reads |-> {"test_score"}, binds |-> {}, defs |-> {}],
      [line |-> 282, reads |-> {}, binds |-> {"cross_val_score"},
          defs |-> {}],
      [line |-> 284, reads |-> {"SelectKBest", "f_classif"},
          binds |-> {"feature_selector"}, defs |-> {}],
      [line |-> 285, reads |-> {"X", "cross_val_score",
          "feature_selector", "model", "y"}, binds |-> {"test_score"},
          defs |-> {}],
      [line |-> 286, reads |-> {"test_score"}, binds |-> {}, defs |-> {}],
      [line |-> 314, reads |-> {"LogisticRegression", "feature_selector",
          "make_pipeline"}, binds |-> {"model"}, defs |-> {}],
      [line |-> 315, reads |-> {"X", "cross_val_score", "model", "y"},
          binds |-> {"test_score"}, defs |-> {}],
      [line |-> 316, reads |-> {"test_score"}, binds |-> {}, defs |-> {}],
      [line |-> 348, reads |-> {"make_classification"}, binds |-> {"X",
          "y"}, defs |-> {}],
      [line |-> 373, reads |-> {"RandomForestClassifier"},
          binds |-> {"model_without_selection"}, defs |-> {}],
      [line |-> 374, reads |-> {"X", "cross_validate",
          "model_without_selection", "pd", "y"},
          binds |-> {"cv_results_without_selection"}, defs |-> {}],
      [line |-> 394, reads |-> {}, binds |-> {"SelectFromModel"},
          defs |-> {}],
      [line |-> 396, reads |-> {"RandomForestClassifier",
          "SelectFromModel", "make_pipeline"},
          binds |-> {"model_with_selection"}, defs |-> {}],
      [line |-> 402, reads |-> {"X", "cross_validate",
          "model_with_selection", "pd", "y"},
          binds |-> {"cv_results_with_selection"}, defs |-> {}],
      [line |-> 420, reads |-> {"cv_results_with_selection",
          "cv_results_without_selection", "pd"}, binds |-> {"cv_results"},
          defs |-> {}],
      [line |-> 425, reads |-> {"cv_results"}, binds |-> {}, defs |-> {}],
      [line |-> 426, reads |-> {"plt"}, binds |-> {}, defs |-> {}],
      [line |-> 427, reads |-> {"plt"}, binds |-> {"_"}, defs |-> {}] >>

\* src/notebooks/trees.ipynb
Statements_trees ==
    << [line |-> 44, reads |-> {}, binds |-> {"pd"}, defs |-> {}],
      [line |-> 46, reads |-> {"pd"}, binds |-> {"data"}, defs |-> {}],
      [line |-> 49, reads |-> {}, binds |-> {"culmen_columns"},
          defs |-> {}],
      [line |-> 50, reads |-> {}, binds |-> {"target_column"},
          defs |-> {}],
      [line |-> 52, reads |-> {"culmen_columns", "data", "target_column"},
          binds |-> {"data"}, defs |-> {}],
      [line |-> 53, reads |-> {"data", "target_column"}, binds |-> {},
          defs |-> {}],
      [line |-> 69, reads |-> {"data"}, binds |-> {}, defs |-> {}],
      [line |-> 87, reads |-> {"data"}, binds |-> {"data"}, defs |-> {}],
      [line |-> 88, reads |-> {"data"}, binds |-> {}, defs |-> {}],
      [line |-> 105, reads |-> {}, binds |-> {"train_test_split"},
          defs |-> {}],
      [line |-> 107, reads |-> {"culmen_columns", "data",
          "target_column"}, binds |-> {"X", "y"}, defs |-> {}],
      [line |-> 108, reads |-> {"X", "train_test_split", "y"},
          binds |-> {"X_test", "X_train", "y_test", "y_train"}, defs |-> {}],
      [line |-> 127, reads |-> {}, binds |-> {"sns"}, defs |-> {}],
      [line |-> 129, reads |-> {"data", "sns"}, binds |-> {"_"},
          defs |-> {}],
      [line |-> 160, reads |-> {}, binds |-> {"np"}, defs |-> {}],
      [line |-> 161, reads |-> {}, binds |-> {"plt"}, defs |-> {}],
      [line |-> 164, reads |-> {}, binds |-> {"plot_decision_function"},
          defs |-> {<<"plot_decision_function", "np">>,
          <<"plot_decision_function", "pd">>, <<"plot_decision_function",
          "plt">>, <<"plot_decision_function", "sns">>}],
      [line |-> 212, reads |-> {}, binds |-> {"LogisticRegression"},
          defs |-> {}],
      [line |-> 214, reads |-> {"LogisticRegression"},
          binds |-> {"linear_model"}, defs |-> {}],
      [line |-> 215, reads |-> {"X_train", "linear_model",
          "plot_decision_function", "y_train"}, binds |-> {}, defs |-> {}],
      [line |-> 234, reads |-> {"X_test", "X_train", "linear_model",
          "y_test", "y_train"}, binds |-> {}, defs |-> {}],
      [line |-> 256, reads |-> {}, binds |-> {"DecisionTreeClassifier"},
          defs |-> {}],
      [line |-> 258, reads |-> {"DecisionTreeClassifier"},
          binds |-> {"tree"}, defs |-> {}],
      [line |-> 259, reads |-> {"X_train", "plot_decision_function",
          "tree", "y_train"}, binds |-> {}, defs |-> {}],
      [line |-> 278, reads |-> {}, binds |-> {"plot_tree"}, defs |-> {}],
      [line |-> 280, reads |-> {"plt"}, binds |-> {"_", "ax"},
          defs |-> {}],
      [line |-> 281, reads |-> {"ax", "plot_tree", "tree"},
          binds |-> {"_"}, defs |-> {}],
      [line |-> 314, reads |-> {"tree"}, binds |-> {}, defs |-> {}],
      [line |-> 331, reads |-> {"tree"}, binds |-> {}, defs |-> {}],
      [line |-> 354, reads |-> {"tree"}, binds |-> {}, defs |-> {}],
      [line |-> 371, reads |-> {}, binds |-> {}, defs |-> {}],
      [line |-> 394, reads |-> {"tree"}, binds |-> {}, defs |-> {}],
      [line |-> 412, reads |-> {"X_test", "X_train", "tree", "y_test",
          "y_train"}, binds |-> {}, defs |-> {}],
      [line |-> 437, reads |-> {"DecisionTreeClassifier"},
          binds |-> {"tree"}, defs |-> {}],
      [line |-> 438, reads |-> {"X_train", "plot_decision_function",
          "tree", "y_train"}, binds |-> {}, defs |-> {}],
      [line |-> 456, reads |-> {"X_test", "X_train", "tree", "y_test",
          "y_train"}, binds |-> {}, defs |-> {}],
      [line |-> 503, reads |-> {"pd"}, binds |-> {"data"}, defs |-> {}],
      [line |-> 505, reads |-> {}, binds |-> {"data_columns"},
          defs |-> {}],
      [line |-> 506, reads |-> {}, binds |-> {"target_column"},
          defs |-> {}],
      [line |-> 508, reads |-> {"data", "data_columns", "target_column"},
          binds |-> {"data"}, defs |-> {}],
      [line |-> 509, reads |-> {"data"}, binds |-> {"data"}, defs |-> {}],
      [line |-> 511, reads |-> {"data", "data_columns", "target_column"},
          binds |-> {"X", "y"}, defs |-> {}],
      [line |-> 512, reads |-> {"X", "train_test_split", "y"},
          binds |-> {"X_test", "X_train", "y_test", "y_train"}, defs |-> {}],
      [line |-> 523, reads |-> {"data", "sns"}, binds |-> {}, defs |-> {}],
      [line |-> 546, reads |-> {}, binds |-> {"LinearRegression"},
          defs |-> {}],
      [line |-> 548, reads |-> {"LinearRegression"},
          binds |-> {"linear_model"}, defs |-> {}],
      [line |-> 568, reads |-> {}, binds |-> {"plot_regression_model"},
          defs |-> {<<"plot_regression_model", "np">>,
          <<"plot_regression_model", "pd">>, <<"plot_regression_model",
          "plt">>, <<"plot_regression_model", "sns">>}],
      [line |-> 609, reads |-> {"X_train", "linear_model",
          "plot_regression_model", "y_train"}, binds |-> {"_"}, defs |-> {}],
      [line |-> 629, reads |-> {"X_test"}, binds |-> {"X_test_subset"},
          defs |-> {}],
      [line |-> 630, reads |-> {"X_train", "linear_model",
          "plot_regression_model", "y_train"}, binds |-> {"ax"}, defs |-> {}],
      [line |-> 631, reads |-> {"X_test_subset", "linear_model"},
          binds |-> {"y_pred"}, defs |-> {}],
      [line |-> 632, reads |-> {"X_test_subset", "ax", "y_pred"},
          binds |-> {}, defs |-> {}],
      [line |-> 637, reads |-> {"plt"}, binds |-> {}, defs |-> {}],
      [line |-> 656, reads |-> {}, binds |-> {"DecisionTreeRegressor"},
          defs |-> {}],
      [line |-> 658, reads |-> {"DecisionTreeRegressor"},
          binds |-> {"tree"}, defs |-> {}],
      [line |-> 667, reads |-> {"X_train", "plot_regression_model",
          "tree", "y_train"}, binds |-> {"_"}, defs |-> {}],
      [line |-> 689, reads |-> {"plot_tree", "tree"}, binds |-> {"_"},
          defs |-> {}],
      [line |-> 711, reads |-> {"DecisionTreeRegressor"},
          binds |-> {"tree"}, defs |-> {}],
      [line |-> 712, reads |-> {"X_train", "plot_regression_model",
          "tree", "y_train"}, binds |-> {"_"}, defs |-> {}],
      [line |-> 730, reads |-> {"X_train", "linear_model",
          "plot_regression_model", "y_train"}, binds |-> {}, defs |-> {}],
      [line |-> 748, reads |-> {"X_train", "linear_model",
          "plot_regression_model", "y_train"}, binds |-> {"ax"}, defs |-> {}],
      [line |-> 749, reads |-> {"X_train", "ax", "plot_regression_model",
          "tree", "y_train"}, binds |-> {"_"}, defs |-> {}],
      [line |-> 780, reads |-> {"pd"}, binds |-> {"data"}, defs |-> {}],
      [line |-> 789, reads |-> {}, binds |-> {"data_clf_columns"},
          defs |-> {}],
      [line |-> 790, reads |-> {}, binds |-> {"target_clf_column"},
          defs |-> {}],
      [line |-> 792, reads |-> {"data", "data_clf_columns",
          "target_clf_column"}, binds |-> {"data_clf"}, defs |-> {}],
      [line |-> 795, reads |-> {"data_clf", "target_clf_column"},
          binds |-> {}, defs |-> {}],
      [line |-> 797, reads |-> {"data_clf"}, binds |-> {"data_clf"},
          defs |-> {}],
      [line |-> 799, reads |-> {"data_clf", "data_clf_columns",
          "target_clf_column"}, binds |-> {"X_clf", "y_clf"}, defs |-> {}],
      [line |-> 800, reads |-> {"X_clf", "train_test_split", "y_clf"},
          binds |-> {"X_test_clf", "X_train_clf", "y_test_clf",
          "y_train_clf"}, defs |-> {}],
      [line |-> 811, reads |-> {}, binds |-> {"data_reg_columns"},
          defs |-> {}],
      [line |-> 812, reads |-> {}, binds |-> {"target_reg_column"},
          defs |-> {}],
      [line |-> 814, reads |-> {"data", "data_reg_columns",
          "target_reg_column"}, binds |-> {"data_reg"}, defs |-> {}],
      [line |-> 815, reads |-> {"data_reg"}, binds |-> {"data_reg"},
          defs |-> {}],
      [line |-> 817, reads |-> {"data_reg", "data_reg_columns",
          "target_reg_column"}, binds |-> {"X_reg", "y_reg"}, defs |-> {}],
      [line |-> 818, reads |-> {"X_reg", "train_test_split", "y_reg"},
          binds |-> {"X_test_reg", "X_train_reg", "y_test_reg",
          "y_train_reg"}, defs |-> {}],
      [line |-> 829, reads |-> {"plt"}, binds |-> {"_", "axs"},
          defs |-> {}],
      [line |-> 830, reads |-> {"axs", "data_clf", "sns"}, binds |-> {},
          defs |-> {}],
      [line |-> 835, reads |-> {"axs"}, binds |-> {}, defs |-> {}],
      [line |-> 836, reads |-> {"axs", "data_reg", "sns"}, binds |-> {},
          defs |-> {}],
      [line |-> 840, reads |-> {"axs"}, binds |-> {"_"}, defs |-> {}],
      [line |-> 864, reads |-> {}, binds |-> {"max_depth"}, defs |-> {}],
      [line |-> 865, reads |-> {"DecisionTreeClassifier", "max_depth"},
          binds |-> {"tree_clf"}, defs |-> {}],
      [line |-> 866, reads |-> {"DecisionTreeRegressor", "max_depth"},
          binds |-> {"tree_reg"}, defs |-> {}],
      [line |-> 868, reads |-> {"plt"}, binds |-> {"axs", "fig"},
          defs |-> {}],
      [line |-> 869, reads |-> {"X_train_clf", "axs",
          "plot_decision_function", "tree_clf", "y_train_clf"}, binds |-> {},
          defs |-> {}],
      [line |-> 870, reads |-> {"X_train_reg", "axs",
          "plot_regression_model", "tree_reg", "y_train_reg"}, binds |-> {},
          defs |-> {}],
      [line |-> 871, reads |-> {"fig", "max_depth"}, binds |-> {"_"},
          defs |-> {}],
      [line |-> 880, reads |-> {}, binds |-> {"max_depth"}, defs |-> {}],
      [line |-> 881, reads |-> {"DecisionTreeClassifier", "max_depth"},
          binds |-> {"tree_clf"}, defs |-> {}],
      [line |-> 882, reads |-> {"DecisionTreeRegressor", "max_depth"},
          binds |-> {"tree_reg"}, defs |-> {}],
      [line |-> 884, reads |-> {"plt"}, binds |-> {"axs", "fig"},
          defs |-> {}],
      [line |-> 885, reads |-> {"X_train_clf", "axs",
          "plot_decision_function", "tree_clf", "y_train_clf"}, binds |-> {},
          defs |-> {}],
      [line |-> 886, reads |-> {"X_train_reg", "axs",
          "plot_regression_model", "tree_reg", "y_train_reg"}, binds |-> {},
          defs |-> {}],
      [line |-> 887, reads |-> {"fig", "max_depth"}, binds |-> {"_"},
          defs |-> {}],
      [line |-> 908, reads |-> {}, binds |-> {"GridSearchCV"},
          defs |-> {}],
      [line |-> 910, reads |-> {"np"}, binds |-> {"param_grid"},
          defs |-> {}],
      [line |-> 911, reads |-> {"DecisionTreeClassifier", "GridSearchCV",
          "param_grid"}, binds |-> {"tree_clf"}, defs |-> {}],
      [line |-> 912, reads |-> {"DecisionTreeRegressor", "GridSearchCV",
          "param_grid"}, binds |-> {"tree_reg"}, defs |-> {}],
      [line |-> 921, reads |-> {"plt"}, binds |-> {"axs", "fig"},
          defs |-> {}],
      [line |-> 922, reads |-> {"X_train_clf", "axs",
          "plot_decision_function", "tree_clf", "y_train_clf"}, binds |-> {},
          defs |-> {}],
      [line |-> 923, reads |-> {"axs", "tree_clf"}, binds |-> {},
          defs |-> {}],
      [line |-> 926, reads |-> {"X_train_reg", "axs",
          "plot_regression_model", "tree_reg", "y_train_reg"}, binds |-> {},
          defs |-> {}],
      [line |-> 927, reads |-> {"axs", "tree_reg"}, binds |-> {"_"},
          defs |-> {}] >>

\* src/unnamed/part_000
Statements_part_000_exercise ==
    << [line |-> 36, reads |-> {}, binds |-> {"pd"}, defs |-> {}],
      [line |-> 38, reads |-> {"pd"}, binds |-> {"df"}, defs |-> {}],
      [line |-> 47, reads |-> {}, binds |-> {"target_name"}, defs |-> {}],
      [line |-> 48, reads |-> {"df", "target_name"}, binds |-> {"target"},
          defs |-> {}],
      [line |-> 49, reads |-> {"df", "target_name"}, binds |-> {"data"},
          defs |-> {}],
      [line |-> 58, reads |-> {}, binds |-> {"selector"}, defs |-> {}],
      [line |-> 60, reads |-> {"selector"},
          binds |-> {"categorical_columns_selector"}, defs |-> {}],
      [line |-> 61, reads |-> {"categorical_columns_selector", "data"},
          binds |-> {"categorical_columns"}, defs |-> {}],
      [line |-> 62, reads |-> {"categorical_columns", "data"},
          binds |-> {"data_categorical"}, defs |-> {}],
      [line |-> 71, reads |-> {}, binds |-> {"cross_val_score"},
          defs |-> {}],
      [line |-> 72, reads |-> {}, binds |-> {"make_pipeline"},
          defs |-> {}],
      [line |-> 73, reads |-> {}, binds |-> {"OrdinalEncoder"},
          defs |-> {}],
      [line |-> 74, reads |-> {}, binds |-> {"LogisticRegression"},
          defs |-> {}] >>

\* src/unnamed/part_000
Statements_part_000_solution ==
    << [line |-> 126, reads |-> {}, binds |-> {"pd"}, defs |-> {}],
      [line |-> 128, reads |-> {"pd"}, binds |-> {"df"}, defs |-> {}],
      [line |-> 137, reads |-> {}, binds |-> {"target_name"}, defs |-> {}],
      [line |-> 138, reads |-> {"df", "target_name"},
          binds |-> {"target"}, defs |-> {}],
      [line |-> 139, reads |-> {"df", "target_name"}, binds |-> {"data"},
          defs |-> {}],
      [line |-> 148, reads |-> {}, binds |-> {"selector"}, defs |-> {}],
      [line |-> 150, reads |-> {"selector"},
          binds |-> {"categorical_columns_selector"}, defs |-> {}],
      [line |-> 151, reads |-> {"categorical_columns_selector", "data"},
          binds |-> {"categorical_columns"}, defs |-> {}],
      [line |-> 152, reads |-> {"categorical_columns", "data"},
          binds |-> {"data_categorical"}, defs |-> {}],
      [line |-> 161, reads |-> {"categorical_columns", "data"},
          binds |-> {"categories"}, defs |-> {}],
      [line |-> 164, reads |-> {"categories"}, binds |-> {}, defs |-> {}],
      [line |-> 173, reads |-> {}, binds |-> {"cross_val_score"},
          defs |-> {}],
      [line |-> 174, reads |-> {}, binds |-> {"make_pipeline"},
          defs |-> {}],
      [line |-> 175, reads |-> {}, binds |-> {"OrdinalEncoder"},
          defs |-> {}],
      [line |-> 176, reads |-> {}, binds |-> {"LogisticRegression"},
          defs |-> {}],
      [line |-> 178, reads |-> {"LogisticRegression", "OrdinalEncoder",
          "categories", "make_pipeline"}, binds |-> {"model"}, defs |-> {}],
      [line |-> 181, reads |-> {"cross_val_score", "data_categorical",
          "model", "target"}, binds |-> {"scores"}, defs |-> {}],
      [line |-> 182, reads |-> {"scores"}, binds |-> {}, defs |-> {}],
      [line |-> 191, reads |-> {"scores"}, binds |-> {}, defs |-> {}],
      [line |-> 209, reads |-> {}, binds |-> {"DummyClassifier"},
          defs |-> {}],
      [line |-> 211, reads |-> {"DummyClassifier", "cross_val_score",
          "data_categorical", "target"}, binds |-> {"scores"}, defs |-> {}],
      [line |-> 213, reads |-> {"scores"}, binds |-> {}, defs |-> {}],
      [line |-> 214, reads |-> {"scores"}, binds |-> {}, defs |-> {}],
      [line |-> 231, reads |-> {}, binds |-> {"OneHotEncoder"},
          defs |-> {}],
      [line |-> 233, reads |-> {"LogisticRegression", "OneHotEncoder",
          "make_pipeline"}, binds |-> {"model"}, defs |-> {}],
      [line |-> 236, reads |-> {"cross_val_score", "data_categorical",
          "model", "target"}, binds |-> {"scores"}, defs |-> {}],
      [line |-> 237, reads |-> {"scores"}, binds |-> {}, defs |-> {}],
      [line |-> 238, reads |-> {"scores"}, binds |-> {}, defs |-> {}] >>

\* src/unnamed/part_001
Statements_part_001 ==
    << [line |-> 30, reads |-> {}, binds |-> {"pd"}, defs |-> {}],
      [line |-> 32, reads |-> {"pd"}, binds |-> {"df"}, defs |-> {}],
      [line |-> 48, reads |-> {"df"}, binds |-> {}, defs |-> {}],
      [line |-> 57, reads |-> {}, binds |-> {"target_name"}, defs |-> {}],
      [line |-> 58, reads |-> {"df", "target_name"}, binds |-> {"target"},
          defs |-> {}],
      [line |-> 59, reads |-> {"target"}, binds |-> {}, defs |-> {}],
      [line |-> 79, reads |-> {"df", "target_name"}, binds |-> {"data"},
          defs |-> {}],
      [line |-> 80, reads |-> {"data"}, binds |-> {}, defs |-> {}],
      [line |-> 104, reads |-> {"data"}, binds |-> {}, defs |-> {}],
      [line |-> 113, reads |-> {"data"}, binds |-> {}, defs |-> {}],
      [line |-> 122, reads |-> {}, binds |-> {"selector"}, defs |-> {}],
      [line |-> 124, reads |-> {"selector"},
          binds |-> {"numerical_columns_selector"}, defs |-> {}],
      [line |-> 125, reads |-> {"data", "numerical_columns_selector"},
          binds |-> {"numerical_columns"}, defs |-> {}],
      [line |-> 126, reads |-> {"numerical_columns"}, binds |-> {},
          defs |-> {}],
      [line |-> 135, reads |-> {"data", "numerical_columns"},
          binds |-> {"data_numeric"}, defs |-> {}],
      [line |-> 136, reads |-> {"data_numeric"}, binds |-> {},
          defs |-> {}],
      [line |-> 159, reads |-> {}, binds |-> {"train_test_split"},
          defs |-> {}],
      [line |-> 161, reads |-> {"data_numeric", "target",
          "train_test_split"}, binds |-> {"data_test", "data_train",
          "target_test", "target_train"}, defs |-> {}],
      [line |-> 171, reads |-> {"data_train"}, binds |-> {}, defs |-> {}],
      [line |-> 182, reads |-> {"data_test"}, binds |-> {}, defs |-> {}],
      [line |-> 207, reads |-> {}, binds |-> {"LogisticRegression"},
          defs |-> {}],
      [line |-> 208, reads |-> {}, binds |-> {"time"}, defs |-> {}],
      [line |-> 210, reads |-> {"LogisticRegression"},
          binds |-> {"model"}, defs |-> {}],
      [line |-> 211, reads |-> {"time"}, binds |-> {"start"}, defs |-> {}],
      [line |-> 212, reads |-> {"data_train", "model", "target_train"},
          binds |-> {}, defs |-> {}],
      [line |-> 213, reads |-> {"start", "time"},
          binds |-> {"elapsed_time"}, defs |-> {}],
      [line |-> 215, reads |-> {"elapsed_time", "model"}, binds |-> {},
          defs |-> {}],
      [line |-> 234, reads |-> {"data_test", "model"},
          binds |-> {"target_predicted"}, defs |-> {}],
      [line |-> 235, reads |-> {"target_predicted"}, binds |-> {},
          defs |-> {}],
      [line |-> 244, reads |-> {"target_test"}, binds |-> {}, defs |-> {}],
      [line |-> 253, reads |-> {"data_test"}, binds |-> {"predictions"},
          defs |-> {}],
      [line |-> 254, reads |-> {"predictions", "target_predicted"},
          binds |-> {}, defs |-> {}],
      [line |-> 255, reads |-> {"predictions", "target_test"},
          binds |-> {}, defs |-> {}],
      [line |-> 256, reads |-> {"predictions", "target_predicted",
          "target_test"}, binds |-> {}, defs |-> {}],
      [line |-> 257, reads |-> {"predictions"}, binds |-> {}, defs |-> {}],
      [line |-> 275, reads |-> {"data_test", "model", "target_test"},
          binds |-> {}, defs |-> {}],
      [line |-> 293, reads |-> {"target_predicted", "target_test"},
          binds |-> {}, defs |-> {}] >>

\* src/unnamed/part_002
Statements_part_002 ==
    << [line |-> 33, reads |-> {}, binds |-> {"pd"}, defs |-> {}],
      [line |-> 35, reads |-> {"pd"}, binds |-> {"df"}, defs |-> {}],
      [line |-> 44, reads |-> {}, binds |-> {"target_name"}, defs |-> {}],
      [line |-> 45, reads |-> {"df", "target_name"}, binds |-> {"target"},
          defs |-> {}],
      [line |-> 46, reads |-> {"target"}, binds |-> {}, defs |-> {}],
      [line |-> 55, reads |-> {"df", "target_name"}, binds |-> {"data"},
          defs |-> {}],
      [line |-> 56, reads |-> {"data"}, binds |-> {}, defs |-> {}],
      [line |-> 72, reads |-> {}, binds |-> {"train_test_split"},
          defs |-> {}],
      [line |-> 74, reads |-> {"data", "target", "train_test_split"},
          binds |-> {"df_test", "df_train", "target_test", "target_train"},
          defs |-> {}],
      [line |-> 92, reads |-> {}, binds |-> {"ColumnTransformer"},
          defs |-> {}],
      [line |-> 93, reads |-> {}, binds |-> {"selector"}, defs |-> {}],
      [line |-> 95, reads |-> {}, binds |-> {"OrdinalEncoder"},
          defs |-> {}],
      [line |-> 97, reads |-> {"selector"},
          binds |-> {"categorical_columns_selector"}, defs |-> {}],
      [line |-> 98, reads |-> {"categorical_columns_selector", "data"},
          binds |-> {"categorical_columns"}, defs |-> {}],
      [line |-> 100, reads |-> {"categorical_columns", "data"},
          binds |-> {"categories"}, defs |-> {}],
      [line |-> 103, reads |-> {"OrdinalEncoder", "categories"},
          binds |-> {"categorical_preprocessor"}, defs |-> {}],
      [line |-> 105, reads |-> {"ColumnTransformer",
          "categorical_columns", "categorical_preprocessor"},
          binds |-> {"preprocessor"}, defs |-> {}],
      [line |-> 127, reads |-> {},
          binds |-> {"enable_hist_gradient_boosting"}, defs |-> {}],
      [line |-> 128, reads |-> {},
          binds |-> {"HistGradientBoostingClassifier"}, defs |-> {}],
      [line |-> 129, reads |-> {}, binds |-> {"Pipeline"}, defs |-> {}],
      [line |-> 131, reads |-> {"HistGradientBoostingClassifier",
          "Pipeline", "preprocessor"}, binds |-> {"model"}, defs |-> {}],
      [line |-> 135, reads |-> {"df_train", "model", "target_train"},
          binds |-> {}, defs |-> {}],
      [line |-> 137, reads |-> {"df_test", "model", "target_test"},
          binds |-> {}, defs |-> {}],
      [line |-> 155, reads |-> {"HistGradientBoostingClassifier",
          "Pipeline", "preprocessor"}, binds |-> {"model"}, defs |-> {}],
      [line |-> 160, reads |-> {"df_train", "model", "target_train"},
          binds |-> {}, defs |-> {}],
      [line |-> 161, reads |-> {"df_test", "model", "target_test"},
          binds |-> {}, defs |-> {}],
      [line |-> 172, reads |-> {"HistGradientBoostingClassifier",
          "Pipeline", "preprocessor"}, binds |-> {"model"}, defs |-> {}],
      [line |-> 177, reads |-> {"df_train", "model", "target_train"},
          binds |-> {}, defs |-> {}],
      [line |-> 178, reads |-> {"df_test", "model", "target_test"},
          binds |-> {}, defs |-> {}],
      [line |-> 218, reads |-> {"model"}, binds |-> {}, defs |-> {}],
      [line |-> 219, reads |-> {"df_train", "model", "target_train"},
          binds |-> {}, defs |-> {}],
      [line |-> 220, reads |-> {"df_test", "model", "target_test"},
          binds |-> {}, defs |-> {}],
      [line |-> 250, reads |-> {"model"}, binds |-> {"parameter"},
          defs |-> {}],
      [line |-> 269, reads |-> {"model"}, binds |-> {}, defs |-> {}] >>

\* src/unnamed/part_003
Statements_part_003 ==
    << [line |-> 28, reads |-> {}, binds |-> {"pd"}, defs |-> {}],
      [line |-> 30, reads |-> {"pd"}, binds |-> {"df"}, defs |-> {}],
      [line |-> 32, reads |-> {}, binds |-> {"target_name"}, defs |-> {}],
      [line |-> 33, reads |-> {"df", "target_name"}, binds |-> {"target"},
          defs |-> {}],
      [line |-> 35, reads |-> {"df", "target_name"}, binds |-> {"data"},
          defs |-> {}],
      [line |-> 51, reads |-> {}, binds |-> {"selector"}, defs |-> {}],
      [line |-> 53, reads |-> {"selector"},
          binds |-> {"numerical_columns_selector"}, defs |-> {}],
      [line |-> 54, reads |-> {"selector"},
          binds |-> {"categorical_columns_selector"}, defs |-> {}],
      [line |-> 56, reads |-> {"data", "numerical_columns_selector"},
          binds |-> {"numerical_columns"}, defs |-> {}],
      [line |-> 57, reads |-> {"categorical_columns_selector", "data"},
          binds |-> {"categorical_columns"}, defs |-> {}],
      [line |-> 91, reads |-> {}, binds |-> {"binary_encoding_columns"},
          defs |-> {}],
      [line |-> 92, reads |-> {"binary_encoding_columns",
          "categorical_columns"}, binds |-> {"one_hot_encoding_columns"},
          defs |-> {}],
      [line |-> 111, reads |-> {}, binds |-> {"OrdinalEncoder"},
          defs |-> {}],
      [line |-> 112, reads |-> {}, binds |-> {"OneHotEncoder"},
          defs |-> {}],
      [line |-> 113, reads |-> {}, binds |-> {"StandardScaler"},
          defs |-> {}],
      [line |-> 114, reads |-> {}, binds |-> {"ColumnTransformer"},
          defs |-> {}],
      [line |-> 115, reads |-> {}, binds |-> {"LogisticRegression"},
          defs |-> {}],
      [line |-> 116, reads |-> {}, binds |-> {"make_pipeline"},
          defs |-> {}],
      [line |-> 118, reads |-> {"ColumnTransformer", "OneHotEncoder",
          "OrdinalEncoder", "StandardScaler", "binary_encoding_columns",
          "numerical_columns", "one_hot_encoding_columns"},
          binds |-> {"preprocessor"}, defs |-> {}],
      [line |-> 131, reads |-> {"LogisticRegression", "make_pipeline",
          "preprocessor"}, binds |-> {"model"}, defs |-> {}],
      [line |-> 149, reads |-> {}, binds |-> {"config_context"},
          defs |-> {}],
      [line |-> 150, reads |-> {"config_context", "model"}, binds |-> {},
          defs |-> {}],
      [line |-> 172, reads |-> {}, binds |-> {"train_test_split"},
          defs |-> {}],
      [line |-> 174, reads |-> {"data", "target", "train_test_split"},
          binds |-> {"data_test", "data_train", "target_test",
          "target_train"}, defs |-> {}],
      [line |-> 184, reads |-> {"data_train", "model", "target_train"},
          binds |-> {"_"}, defs |-> {}],
      [line |-> 193, reads |-> {"data_test"}, binds |-> {}, defs |-> {}],
      [line |-> 202, reads |-> {"data_test", "model"}, binds |-> {},
          defs |-> {}],
      [line |-> 211, reads |-> {"target_test"}, binds |-> {}, defs |-> {}],
      [line |-> 220, reads |-> {"data_test", "model", "target_test"},
          binds |-> {}, defs |-> {}],
      [line |-> 237, reads |-> {}, binds |-> {"cross_val_score"},
          defs |-> {}],
      [line |-> 239, reads |-> {"cross_val_score", "data", "model",
          "target"}, binds |-> {"scores"}, defs |-> {}],
      [line |-> 240, reads |-> {"scores"}, binds |-> {}, defs |-> {}],
      [line |-> 249, reads |-> {"scores"}, binds |-> {}, defs |-> {}],
      [line |-> 287, reads |-> {},
          binds |-> {"enable_hist_gradient_boosting"}, defs |-> {}],
      [line |-> 288, reads |-> {},
          binds |-> {"HistGradientBoostingClassifier"}, defs |-> {}],
      [line |-> 292, reads |-> {"categorical_columns", "data"},
          binds |-> {"categories"}, defs |-> {}],
      [line |-> 297, reads |-> {"ColumnTransformer", "OrdinalEncoder",
          "categorical_columns", "categories"}, binds |-> {"preprocessor"},
          defs |-> {}],
      [line |-> 301, reads |-> {"HistGradientBoostingClassifier",
          "make_pipeline", "preprocessor"}, binds |-> {"model"}, defs |-> {}],
      [line |-> 311, reads |-> {"data_train", "model", "target_train"},
          binds |-> {"_"}, defs |-> {}],
      [line |-> 320, reads |-> {"data_test", "model", "target_test"},
          binds |-> {}, defs |-> {}] >>

Notebooks ==
    {"04_parameter_tuning_search", "feature_selection", "trees",
     "part_000_exercise", "part_000_solution", "part_001", "part_002", "part_003"}

Statements(nb) ==
    CASE nb = "04_parameter_tuning_search" -> Statements_04_parameter_tuning_search
      [] nb = "feature_selection" -> Statements_feature_selection
      [] nb = "trees" -> Statements_trees
      [] nb = "part_000_exercise" -> Statements_part_000_exercise
      [] nb = "part_000_solution" -> Statements_part_000_solution
      [] nb = "part_001" -> Statements_part_001
      [] nb = "part_002" -> Statements_part_002
      [] nb = "part_003" -> Statements_part_003

\* a notebook run from its last statement to its first
CellOrder_Reversed(nb) ==
    [i \in 1..Len(Statements(nb)) |-> Statements(nb)[Len(Statements(nb)) + 1 - i]]

\* the statements in the order they run: the cells top to bottom, the
\* statements of a cell top to bottom
CellOrder(nb) == Statements(nb)

\* the names a statement needs bound when it runs: those it reads, and those
\* read by the bodies of the functions and classes it refers to
RECURSIVE Needed(_, _)
Needed(names, defs) ==
    LET more == names \cup {q[2] : q \in {d \in defs : d[1] \in names}}
    IN  IF more = names THEN names ELSE Needed(more, defs)

\* a fresh kernel: nothing but the builtins is bound
NamesInit ==
    /\ FSIdle /\ SearchIdle /\ EncIdle
    /\ FilesIdle /\ DeployIdle /\ ShortenIdle
    /\ n_nb \in Notebooks
    /\ n_pc = 0
    /\ n_ns = {}
    /\ n_defs = {}
    /\ n_exc = NoNameError

\* the next statement runs: a name it needs and the kernel has not bound is
\* a NameError, which stops the notebook; else its names are bound
RunStatement ==
    /\ n_exc = NoNameError
    /\ n_pc < Len(CellOrder(n_nb))
    /\ LET st == CellOrder(n_nb)[n_pc + 1]
           missing == Needed(st.reads, n_defs) \ n_ns
       IN  IF missing # {}
           THEN /\ n_exc' = [line |-> st.line, names |-> missing]
                /\ UNCHANGED <<n_pc, n_ns, n_defs>>
           ELSE /\ n_pc' = n_pc + 1
                /\ n_ns' = n_ns \cup st.binds
                /\ n_defs' = {d \in n_defs : d[1] \notin st.binds} \cup st.defs
                /\ n_exc' = n_exc
    /\ UNCHANGED <<n_nb, fsVars, searchVars, encVars, fileVars, deployVars, shortenVars>>

NamesNext == RunStatement

SpecNames == NamesInit /\ [][NamesNext]_vars

\* the names bound by the first n statements of the notebook that is run
BoundBy(n) == UNION {CellOrder(n_nb)[j].binds : j \in 1..n}

\* C11: run top to bottom, no statement of a notebook raises a NameError:
\* every name a statement reads, itself or through the body of a function it
\* refers to, was bound by an earlier statement of the same notebook (an
\* earlier cell, or earlier in the same cell), and the kernel holds no name
\* but those the statements of this notebook have bound.
C11_NamesBoundBeforeRead ==
    /\ n_exc = NoNameError
    /\ n_ns = BoundBy(n_pc)
    /\ \A i \in 1..n_pc :
          /\ CellOrder(n_nb)[i].reads \subseteq BoundBy(i - 1)
          /\ \A d \in CellOrder(n_nb)[i].defs :
                \A j \in (i + 1)..n_pc :
                    (d[1] \in CellOrder(n_nb)[j].reads
                        /\ \A h \in (i + 1)..(j - 1) : d[1] \notin CellOrder(n_nb)[h].binds)
                    => d[2] \in BoundBy(j - 1)

\* C11 witness: trees.ipynb ran to its end, and a statement called a function
\* whose body reads names bound by cells before the one that defines it
C11_Witness ==
    /\ n_nb = "trees"
    /\ n_pc = Len(CellOrder(n_nb))
    /\ \E i \in 1..n_pc, j \in 1..n_pc :
          /\ i < j
          /\ \E d \in CellOrder(n_nb)[i].defs :
                /\ d[1] \in CellOrder(n_nb)[j].reads
                /\ d[2] \in BoundBy(i - 1)

(***************************************************************************)
(* The files of the notebooks.  Each notebook is a process that may be run *)
(* several times; the runs of different notebooks interleave.  The file    *)
(* operations of a notebook are the statements of its code cells that open *)
(* a file, in order; a statement that is commented out is no statement.    *)
(* The files themselves are not part of the repository: a seed stands for  *)
(* their content.                                                          *)
(***************************************************************************)
MaxNotebooks == 2
MaxRuns == 2
MaxContent == 2
MaxFileSeed == 2

adult_census == "../datasets/adult-census.csv"
penguins == "../datasets/penguins.csv"
randomized_search_results == "../figures/randomized_search_results.csv"

Paths == {adult_census, penguins, randomized_search_results}

ReadOp(line, path) == [line |-> line, op |-> "read", path |-> path]
WriteOp(line, path) == [line |-> line, op |-> "write", path |-> path]

\* the notebook with its cell of line 450-455 not commented out:
\* cv_results.to_csv("../figures/randomized_search_results.csv")
FileOps_WithToCsv(nb) ==
    CASE nb = "04_parameter_tuning_search" ->
            <<ReadOp(31, adult_census), WriteOp(455, randomized_search_results),
              ReadOp(464, randomized_search_results)>>
      [] nb = "trees" ->
            <<ReadOp(46, penguins), ReadOp(503, penguins), ReadOp(780, penguins)>>
      [] nb = "feature_selection" -> <<>>
      [] nb = "part_000_exercise" -> <<ReadOp(38, adult_census)>>
      [] nb = "part_000_solution" -> <<ReadOp(128, adult_census)>>
      [] nb = "part_001" -> <<ReadOp(32, adult_census)>>
      [] nb = "part_002" -> <<ReadOp(35, adult_census)>>
      [] nb = "part_003" -> <<ReadOp(30, adult_census)>>

\* the file operations of the notebooks: pd.read_csv, nothing else
FileOps(nb) ==
    CASE nb = "04_parameter_tuning_search" ->
            <<ReadOp(31, adult_census), ReadOp(464, randomized_search_results)>>
      [] nb = "trees" ->
            <<ReadOp(46, penguins), ReadOp(503, penguins), ReadOp(780, penguins)>>
      [] nb = "feature_selection" -> <<>>
      [] nb = "part_000_exercise" -> <<ReadOp(38, adult_census)>>
      [] nb = "part_000_solution" -> <<ReadOp(128, adult_census)>>
      [] nb = "part_001" -> <<ReadOp(32, adult_census)>>
      [] nb = "part_002" -> <<ReadOp(35, adult_census)>>
      [] nb = "part_003" -> <<ReadOp(30, adult_census)>>

\* the content of the files on disk
Files(seed) ==
    [path \in Paths |->
        Draw(seed, CASE path = adult_census -> 1 [] path = penguins -> 2
                     [] path = randomized_search_results -> 3, MaxContent + 1)]

\* the notebooks that are run: f_pc and f_runs are defined on them
Running == DOMAIN f_runs

FilesInit ==
    /\ FSIdle /\ SearchIdle /\ EncIdle
    /\ NamesIdle /\ DeployIdle /\ ShortenIdle
    /\ \E seed \in 0..MaxFileSeed : f_files = Files(seed)
    /\ \E run \in SUBSET Notebooks :
        /\ run # {}
        /\ Cardinality(run) <= MaxNotebooks
        /\ f_pc = [nb \in run |-> 0]
        /\ f_runs = [nb \in run |-> 0]
    /\ f_log = {}

\* "Run all" on a notebook that is not being run
StartRun(nb) ==
    /\ f_runs[nb] < MaxRuns
    /\ f_runs[nb] = 0 \/ f_pc[nb] = Len(FileOps(nb))
    /\ f_runs' = [f_runs EXCEPT ![nb] = @ + 1]
    /\ f_pc' = [f_pc EXCEPT ![nb] = 0]
    /\ UNCHANGED <<f_files, f_log>>
    /\ UNCHANGED <<fsVars, searchVars, encVars, nameVars, deployVars, shortenVars>>

\* the run of nb reaches its next statement that opens a file
FileOp(nb) ==
    /\ f_runs[nb] > 0
    /\ f_pc[nb] < Len(FileOps(nb))
    /\ LET o == FileOps(nb)[f_pc[nb] + 1]
       IN  \E written \in 0..MaxContent :
            LET content == IF o.op = "write" THEN written ELSE f_files[o.path]
            IN  /\ f_files' = [f_files EXCEPT ![o.path] = content]
                /\ f_log' = f_log \cup
                      {[nb |-> nb, run |-> f_runs[nb], line |-> o.line, op |-> o.op,
                        path |-> o.path, content |-> content]}
    /\ f_pc' = [f_pc EXCEPT ![nb] = @ + 1]
    /\ UNCHANGED f_runs
    /\ UNCHANGED <<fsVars, searchVars, encVars, nameVars, deployVars, shortenVars>>

FilesNext ==
    \/ \E nb \in Running : StartRun(nb)
    \/ \E nb \in Running : FileOp(nb)

SpecFiles == FilesInit /\ [][FilesNext]_vars

\* C12: the notebooks open files only to read them, at the constant paths
\* written in their cells; no file changes: whatever was read from a path,
\* by whatever notebook and run, is what the file still holds, so every run
\* reads what every other run reads, however the runs interleave or repeat.
C12_ReadOnly ==
    /\ \A e \in f_log :
          /\ e.op = "read"
          /\ e.path \in Paths
          /\ e.content = f_files[e.path]
    /\ \A e1, e2 \in f_log : e1.path = e2.path => e1.content = e2.content
    /\ \A nb \in Running : \A i \in 1..Len(FileOps(nb)) : FileOps(nb)[i].op = "read"

\* C12 witness: the search notebook read the results file in its second
\* run while another notebook was in the middle of a run
C12_Witness ==
    /\ \E e \in f_log :
          /\ e.nb = "04_parameter_tuning_search"
          /\ e.run = MaxRuns
          /\ e.path = randomized_search_results
    /\ \E nb \in Running :
          /\ nb # "04_parameter_tuning_search"
          /\ 0 < f_pc[nb] /\ f_pc[nb] < Len(FileOps(nb))

(***************************************************************************)
(* The workflow deploy-gh-pages.  A push is made to some branch; a push    *)
(* the trigger accepts starts a run on a fresh runner, which checks out    *)
(* the pushed commit.  A run goes through the steps of the job in the      *)
(* order of the file; a step either succeeds or fails, and a step whose    *)
(* predecessors did not all succeed is skipped.  Runs of different pushes  *)
(* go on at the same time.  A commit is named by the number of its push;   *)
(* the html of a finished build is named by the commit it was built from,  *)
(* what an interrupted build leaves behind by the negative of it.          *)
(***************************************************************************)
MaxPushes == 3

Branches == {"master", "other"}

NoHtml == 0

Steps ==
    <<"checkout", "Set up Python 3.7", "Install dependencies", "Build the book",
      "Create folder for gh-pages", "GitHub Pages action">>

\* on: push: branches: - master
Triggers(branch) == branch = "master"

\* a job whose steps all carry "if: always()"
StepMayRun_Always(run) == TRUE

\* the default condition of a step, success(): no earlier step failed
StepMayRun(run) == \A i \in 1..Len(run.steps) : run.steps[i].outcome = "success"

DeployInit ==
    /\ FSIdle /\ SearchIdle /\ EncIdle
    /\ NamesIdle /\ FilesIdle /\ ShortenIdle
    /\ w_pushes = 0
    /\ w_runs = <<>>
    /\ w_pages = NoPages

Push(branch) ==
    /\ w_pushes < MaxPushes
    /\ w_pushes' = w_pushes + 1
    /\ w_runs' = IF Triggers(branch)
                 THEN Append(w_runs, [branch |-> branch, commit |-> w_pushes + 1,
                                      steps |-> <<>>, source |-> 0,
                                      html |-> NoHtml, gh_pages |-> NoHtml])
                 ELSE w_runs
    /\ UNCHANGED w_pages
    /\ UNCHANGED <<fsVars, searchVars, encVars, nameVars, fileVars, shortenVars>>

\* what a step that ran leaves in the workspace of its run
StepEffect(run, name, ok) ==
    CASE name = "checkout" /\ ok -> [run EXCEPT !.source = run.commit]
      [] name = "Build the book" ->
            [run EXCEPT !.html = IF ok THEN run.source ELSE 0 - run.source]
      [] name = "Create folder for gh-pages" /\ ok -> [run EXCEPT !.gh_pages = run.html]
      [] OTHER -> run

\* a step that cannot succeed: cp of a directory that does not exist,
\* publication of a directory that does not exist
MustFail(run, name) ==
    \/ name = "Create folder for gh-pages" /\ run.html = NoHtml
    \/ name = "GitHub Pages action" /\ run.gh_pages = NoHtml

RunStep(r) ==
    /\ Len(w_runs[r].steps) < Len(Steps)
    /\ LET run == w_runs[r]
           name == Steps[Len(run.steps) + 1]
       IN  IF StepMayRun(run)
           THEN \E ok \in BOOLEAN :
                 /\ ok => ~MustFail(run, name)
                 /\ w_runs' = [w_runs EXCEPT ![r] =
                       [StepEffect(run, name, ok) EXCEPT !.steps =
                           Append(run.steps,
                                  [name |-> name,
                                   outcome |-> IF ok THEN "success" ELSE "failure"])]]
                 /\ w_pages' = IF name = "GitHub Pages action" /\ ok
                               THEN [run |-> r, commit |-> run.commit,
                                     html |-> run.gh_pages]
                               ELSE w_pages
           ELSE /\ w_runs' = [w_runs EXCEPT ![r].steps =
                                 Append(@, [name |-> name, outcome |-> "skipped"])]
                /\ UNCHANGED w_pages
    /\ UNCHANGED w_pushes
    /\ UNCHANGED <<fsVars, searchVars, encVars, nameVars, fileVars, shortenVars>>

DeployNext ==
    \/ \E branch \in Branches : Push(branch)
    \/ \E r \in 1..Len(w_runs) : RunStep(r)

SpecDeploy == DeployInit /\ [][DeployNext]_vars

\* C13: every run was started by a push to master; its steps were taken in
\* the order checkout, Python, dependencies, build, copy, publication, and
\* a step ran only if every step before it had succeeded; what Pages serves
\* was published by a run whose six steps all succeeded and is the html that
\* the build of this very run made from the commit of its push.
C13_PublishedOnlyAfterSuccessfulBuild ==
    /\ \A r \in 1..Len(w_runs) :
          LET run == w_runs[r]
          IN  /\ run.branch = "master"
              /\ Len(run.steps) <= Len(Steps)
              /\ \A i \in 1..Len(run.steps) :
                    /\ run.steps[i].name = Steps[i]
                    /\ run.steps[i].outcome # "skipped" =>
                          \A j \in 1..(i - 1) : run.steps[j].outcome = "success"
    /\ w_pages # NoPages =>
          /\ w_pages.run \in 1..Len(w_runs)
          /\ LET run == w_runs[w_pages.run]
             IN  /\ Len(run.steps) = Len(Steps)
                 /\ \A i \in 1..Len(Steps) : run.steps[i].outcome = "success"
                 /\ w_pages.commit = run.commit
                 /\ w_pages.html = run.html
                 /\ w_pages.html = run.commit

\* C13 witness: a push to another branch started no run, a run on master
\* failed at the build and its last two steps were skipped, yet another run
\* published its build
C13_Witness ==
    /\ w_pushes > Len(w_runs)
    /\ w_pages # NoPages
    /\ \E r \in 1..Len(w_runs) :
          /\ Len(w_runs[r].steps) = Len(Steps)
          /\ w_runs[r].steps[4].outcome = "failure"
          /\ w_runs[r].steps[6].outcome = "skipped"

(***************************************************************************)
(* The cell that shortens the column names of cv_results.  A string is the *)
(* sequence of its characters.  The keys of param_grid are those of the    *)
(* notebook, or names of parameters of the step "classifier" made of the   *)
(* characters of Alphabet.                                                 *)
(***************************************************************************)
MaxNameLen == 3
MaxKeys == 2

Alphabet == {"_", "a"}

classifier__learning_rate ==
    <<"c", "l", "a", "s", "s", "i", "f", "i", "e", "r", "_", "_", "l", "e",
      "a", "r", "n", "i", "n", "g", "_", "r", "a", "t", "e">>

classifier__max_leaf_nodes ==
    <<"c", "l", "a", "s", "s", "i", "f", "i", "e", "r", "_", "_", "m", "a",
      "x", "_", "l", "e", "a", "f", "_", "n", "o", "d", "e", "s">>

classifier__ ==
    <<"c", "l", "a", "s", "s", "i", "f", "i", "e", "r", "_", "_">>

param_ ==
    <<"p", "a", "r", "a", "m", "_">>

param_classifier__ ==
    <<"p", "a", "r", "a", "m", "_", "c", "l", "a", "s", "s", "i", "f", "i",
      "e", "r", "_", "_">>

mean_fit_time ==
    <<"m", "e", "a", "n", "_", "f", "i", "t", "_", "t", "i", "m", "e">>

params ==
    <<"p", "a", "r", "a", "m", "s">>

mean_test_score ==
    <<"m", "e", "a", "n", "_", "t", "e", "s", "t", "_", "s", "c", "o", "r",
      "e">>

std_test_score ==
    <<"s", "t", "d", "_", "t", "e", "s", "t", "_", "s", "c", "o", "r", "e">>

rank_test_score ==
    <<"r", "a", "n", "k", "_", "t", "e", "s", "t", "_", "s", "c", "o", "r",
      "e">>

\* the separator "__"
dunder == <<"_", "_">>

\* the keys of param_grid, in the order of the dict
param_grid_keys == <<classifier__learning_rate, classifier__max_leaf_nodes>>

\* the strings of 1..n characters of Alphabet
Names(n) == UNION {[1..len -> Alphabet] : len \in 1..n}

\* sub in s
In(sub, s) == \E i \in 1..(Len(s) - Len(sub) + 1) : SubSeq(s, i, i + Len(sub) - 1) = sub

\* s.startswith(prefix)
StartsWith(s, prefix) == Len(s) >= Len(prefix) /\ SubSeq(s, 1, Len(prefix)) = prefix

\* s.rsplit(sep, 1): the split at the last occurrence of sep
rsplit(s, sep) ==
    IF ~In(sep, s) THEN <<s>>
    ELSE LET at == CHOOSE i \in 1..(Len(s) - Len(sep) + 1) :
                      /\ SubSeq(s, i, i + Len(sep) - 1) = sep
                      /\ \A j \in (i + 1)..(Len(s) - Len(sep) + 1) :
                            SubSeq(s, j, j + Len(sep) - 1) # sep
         IN  <<SubSeq(s, 1, at - 1), SubSeq(s, at + Len(sep), Len(s))>>

\* def shorten_param(param_name); the index [1] of Python is the second part
shorten_param(param_name) ==
    IF In(dunder, param_name) THEN rsplit(param_name, dunder)[2] ELSE param_name

\* cv_results.rename(shorten_param, axis=1), on the column names
rename(columns) == [i \in DOMAIN columns |-> shorten_param(columns[i])]

\* the columns of pd.DataFrame(model_grid_search.cv_results_) the cells use
CvResultsColumns(keys) ==
    <<mean_fit_time>> \o [i \in DOMAIN keys |-> param_ \o keys[i]]
        \o <<params, mean_test_score, std_test_score, rank_test_score>>

ShortenInit ==
    /\ FSIdle /\ SearchIdle /\ EncIdle
    /\ NamesIdle /\ FilesIdle /\ DeployIdle
    /\ sp_pc = "column_results"
    /\ \/ sp_param_grid = param_grid_keys
       \/ \E n \in 1..MaxKeys : \E names \in [1..n -> Names(MaxNameLen)] :
            /\ \A i, j \in 1..n : i # j => names[i] # names[j]
            /\ sp_param_grid = [i \in 1..n |-> classifier__ \o names[i]]
    /\ column_results = <<>>
    /\ cv_columns = CvResultsColumns(sp_param_grid)

\* column_results = [f"param_{name}" for name in param_grid.keys()] + [...]
\* cv_results = cv_results[column_results]
SelectColumns ==
    /\ sp_pc = "column_results"
    /\ column_results' = [i \in DOMAIN sp_param_grid |-> param_ \o sp_param_grid[i]]
                            \o <<mean_test_score, std_test_score, rank_test_score>>
    /\ cv_columns' = column_results'
    /\ sp_pc' = "rename"
    /\ UNCHANGED sp_param_grid
    /\ UNCHANGED <<fsVars, searchVars, encVars, nameVars, fileVars, deployVars>>

\* cv_results = cv_results.rename(shorten_param, axis=1)
Rename ==
    /\ sp_pc = "rename"
    /\ cv_columns' = rename(cv_columns)
    /\ sp_pc' = "done"
    /\ UNCHANGED <<sp_param_grid, column_results>>
    /\ UNCHANGED <<fsVars, searchVars, encVars, nameVars, fileVars, deployVars>>

ShortenNext == SelectColumns \/ Rename

SpecShorten == ShortenInit /\ [][ShortenNext]_vars

====
